---- MODULE Spec2Model ----
(***************************************************************************)
(* Slide-sequence surgery of utils/presentation_utils.py: move_slide,      *)
(* swap_slides, reorder_slides, delete_slide, delete_slides and            *)
(* duplicate_slide acting on the ordered list of slide references          *)
(* (presentation.slides._sldIdLst), the shape copy of duplicate_slide, and *)
(* the alignment and distribution tools of tools/shape_alignment_tools.py  *)
(* acting on the shapes of a slide.                                        *)
(*                                                                         *)
(* Indices are 0-based as in the source; TLA+ sequences are 1-based, so    *)
(* the element at source index i is deck[i + 1].                           *)
(***************************************************************************)
EXTENDS Integers, Sequences, FiniteSets

\* The longest deck of the model, and the number of slide references it
\* ever hands out.
MaxLen == 3

\* The most shapes on a slide that is duplicated, and the most placeholders
\* a slide layout supplies.
MaxShapes == 2
MaxPlaceholders == 1

\* The shapes on the slide whose shapes are aligned, the farthest edge of
\* a shape from the origin, and the largest width or height.
NumShapes == 3
MaxCoord == 2
MaxExtent == 2

\* The shapes of a row that is distributed, and the farthest shape of it.
MaxRow == 4
MaxSpan == 5

\* The farthest leading edge of a shape on a slide that is analysed, in
\* tenths of an inch.
MaxTenth == 4

VARIABLES
    deck,      \* presentation.slides._sldIdLst: the ordered slide references
    nextRef,   \* the next slide reference add_slide will hand out
    last,      \* the last tool call: operation, arguments, outcome
    pre,       \* the deck as it was when the last call started
    prev,      \* the call before the last one, when the two form a pair of
               \* successful calls of the same reordering operation
    slides,    \* slide reference -> the slide: its layout and its shapes
    before,    \* slides as they were when the last call started
    injected,  \* the failures of library calls that hit the last call
    host       \* two callers of a host that does not serialize them: the
               \* deck they started on, their calls and how far each got

vars == <<deck, nextRef, last, pre, prev, slides, before, injected, host>>

(* Python list / lxml element primitives on the slide-id list.             *)

\* xml_slides[i]
At(s, i) == s[i + 1]

\* range(n) as a sequence: <<0, 1, ..., n-1>>
Range(n) == [k \in 1..n |-> k - 1]

\* xml_slides.remove(xml_slides[i]): the element at index i leaves the list
Remove(s, i) == SubSeq(s, 1, i) \o SubSeq(s, i + 2, Len(s))

\* Insert, inserting behind the element at index i instead of before it.
InsertAfter(s, i, e) ==
    LET k == IF i + 1 < Len(s) THEN i + 1 ELSE Len(s)
    IN  SubSeq(s, 1, k) \o <<e>> \o SubSeq(s, k + 1, Len(s))

\* xml_slides.insert(i, e) for i >= 0: e goes before the element now at
\* index i, or to the end when i is not below the length
Insert(s, i, e) ==
    LET k == IF i < Len(s) THEN i ELSE Len(s)
    IN  SubSeq(s, 1, k) \o <<e>> \o SubSeq(s, k + 1, Len(s))

\* set(seq)
ToSet(s) == {s[k] : k \in 1..Len(s)}

\* sorted(seq): insertion of each element into the sorted prefix
RECURSIVE InsertSorted(_, _)
InsertSorted(s, e) ==
    IF s = <<>> THEN <<e>>
    ELSE IF e <= Head(s) THEN <<e>> \o s
    ELSE <<Head(s)>> \o InsertSorted(Tail(s), e)

RECURSIVE sorted(_)
sorted(s) == IF s = <<>> THEN <<>> ELSE InsertSorted(sorted(Tail(s)), Head(s))

Reverse(s) == [k \in 1..Len(s) |-> s[Len(s) + 1 - k]]

\* sorted_reverse without reverse=True: ascending order.
sorted_ascending(s) == sorted(s)

\* sorted(seq, reverse=True)
sorted_reverse(s) == Reverse(sorted(s))

\* The outcome of a raised ValueError: the caller's try/except turns it into
\* an error value; `d` is the deck as the raise leaves it.
Raise(d) == [raised |-> TRUE, deck |-> d, result |-> [error |-> TRUE]]

\* A normal return.
Return(d, r) == [raised |-> FALSE, deck |-> d, result |-> r]


(* utils/presentation_utils.py: each function maps the deck it is given to *)
(* [raised, deck, result]: whether it raised, the deck it left behind and  *)
(* the dictionary it returned.                                             *)

\* move_slide, lowering to_index by one when the removal happened below it.
move_slide_adjust(d, from_index, to_index) ==
    LET total_slides == Len(d)
    IN  IF from_index < 0 \/ from_index >= total_slides THEN Raise(d)
        ELSE IF to_index < 0 \/ to_index >= total_slides THEN Raise(d)
        ELSE IF from_index = to_index
        THEN Return(d, [success |-> TRUE, from_index |-> from_index,
                        to_index |-> to_index])
        ELSE LET slide_elem == At(d, from_index)
                 removed    == Remove(d, from_index)
                 target     == IF from_index < to_index THEN to_index - 1
                               ELSE to_index
             IN  Return(Insert(removed, target, slide_elem),
                        [success |-> TRUE, from_index |-> from_index,
                         to_index |-> to_index])

move_slide(d, from_index, to_index) ==
    LET total_slides == Len(d)
    IN  IF from_index < 0 \/ from_index >= total_slides THEN Raise(d)
        ELSE IF to_index < 0 \/ to_index >= total_slides THEN Raise(d)
        ELSE IF from_index = to_index
        THEN Return(d, [success |-> TRUE, from_index |-> from_index,
                        to_index |-> to_index])
        ELSE LET slide_elem == At(d, from_index)
                 removed    == Remove(d, from_index)
             IN  Return(Insert(removed, to_index, slide_elem),
                        [success |-> TRUE, from_index |-> from_index,
                         to_index |-> to_index])

\* Two calls in a row, the second on the deck the first left; an exception
\* of either propagates with the deck as it then is.
swap_moves(d, f1, t1, f2, t2, r) ==
    LET m1 == move_slide(d, f1, t1)
    IN  IF m1.raised THEN Raise(m1.deck)
        ELSE LET m2 == move_slide(m1.deck, f2, t2)
             IN  IF m2.raised THEN Raise(m2.deck) ELSE Return(m2.deck, r)

\* swap_slides using the composition for index_a > index_b in both cases.
swap_slides_one_order(d, index_a, index_b) ==
    LET total_slides == Len(d)
        r == [success |-> TRUE, index_a |-> index_a, index_b |-> index_b]
    IN  IF index_a < 0 \/ index_a >= total_slides THEN Raise(d)
        ELSE IF index_b < 0 \/ index_b >= total_slides THEN Raise(d)
        ELSE IF index_a = index_b THEN Return(d, r)
        ELSE swap_moves(d, index_a, index_b, index_b + 1, index_a, r)

\* swap_slides without its second move.
swap_slides_single_move(d, index_a, index_b) ==
    LET total_slides == Len(d)
        r == [success |-> TRUE, index_a |-> index_a, index_b |-> index_b]
        m == IF index_a > index_b THEN move_slide(d, index_a, index_b)
             ELSE move_slide(d, index_b, index_a)
    IN  IF index_a < 0 \/ index_a >= total_slides THEN Raise(d)
        ELSE IF index_b < 0 \/ index_b >= total_slides THEN Raise(d)
        ELSE IF index_a = index_b THEN Return(d, r)
        ELSE Return(m.deck, r)

swap_slides(d, index_a, index_b) ==
    LET total_slides == Len(d)
        r == [success |-> TRUE, index_a |-> index_a, index_b |-> index_b]
    IN  IF index_a < 0 \/ index_a >= total_slides THEN Raise(d)
        ELSE IF index_b < 0 \/ index_b >= total_slides THEN Raise(d)
        ELSE IF index_a = index_b THEN Return(d, r)
        ELSE IF index_a > index_b
        THEN swap_moves(d, index_a, index_b, index_b + 1, index_a, r)
        ELSE swap_moves(d, index_b, index_a, index_a + 1, index_b, r)

\* ClearLoop, one removal short.
RECURSIVE ClearLoop_short(_, _)
ClearLoop_short(s, n) == IF n <= 1 THEN s ELSE ClearLoop_short(Remove(s, 0), n - 1)

\* The clearing loop: len(xml_slides) times, remove the first element.
RECURSIVE ClearLoop(_, _)
ClearLoop(s, n) == IF n = 0 THEN s ELSE ClearLoop(Remove(s, 0), n - 1)

\* AppendLoop reading new_order as "slide i goes to position new_order[i]".
AppendLoop_inverse(s, original_order, order) ==
    s \o [k \in 1..Len(order) |->
             original_order[CHOOSE j \in 1..Len(order) : order[j] = k - 1]]

\* The filling loop: append original_order[idx] for each idx of new_order.
RECURSIVE AppendLoop(_, _, _)
AppendLoop(s, original_order, order) ==
    IF order = <<>> THEN s
    ELSE AppendLoop(Append(s, At(original_order, Head(order))),
                    original_order, Tail(order))

\* reorder_slides checking only that every index of new_order is in range.
reorder_slides_membership(d, new_order) ==
    LET total_slides == Len(d)
    IN  IF Len(new_order) # total_slides THEN Raise(d)
        ELSE IF ~(ToSet(new_order) \subseteq ToSet(Range(total_slides))) THEN Raise(d)
        ELSE LET original_order == d
                 cleared == ClearLoop(d, Len(d))
             IN  Return(AppendLoop(cleared, original_order, new_order),
                        [success |-> TRUE, new_order |-> new_order,
                         total_slides |-> total_slides])

reorder_slides(d, new_order) ==
    LET total_slides == Len(d)
    IN  IF Len(new_order) # total_slides THEN Raise(d)
        ELSE IF sorted(new_order) # Range(total_slides) THEN Raise(d)
        ELSE LET original_order == d
                 cleared == ClearLoop(d, Len(d))
             IN  Return(AppendLoop(cleared, original_order, new_order),
                        [success |-> TRUE, new_order |-> new_order,
                         total_slides |-> total_slides])

delete_slide(d, slide_index) ==
    LET total_slides == Len(d)
    IN  IF slide_index < 0 \/ slide_index >= total_slides THEN Raise(d)
        ELSE LET after == Remove(d, slide_index)
             IN  Return(after, [success |-> TRUE, deleted_index |-> slide_index,
                                remaining_slides |-> Len(after)])

\* AllInRange, returning after the first index.
AllInRange_first(indices, total_slides) ==
    IF indices = <<>> THEN TRUE
    ELSE ~(Head(indices) < 0 \/ Head(indices) >= total_slides)

\* for idx in slide_indices: the range check of one index after another
RECURSIVE AllInRange(_, _)
AllInRange(indices, total_slides) ==
    IF indices = <<>> THEN TRUE
    ELSE IF Head(indices) < 0 \/ Head(indices) >= total_slides THEN FALSE
    ELSE AllInRange(Tail(indices), total_slides)

\* DeleteLoop giving up at the first deletion that raises.
RECURSIVE DeleteLoop_abort(_, _, _, _)
DeleteLoop_abort(d, indices, deleted_count, failing) ==
    IF indices = <<>> THEN <<d, deleted_count>>
    ELSE LET one == IF Head(indices) \in failing THEN Raise(d)
                    ELSE delete_slide(d, Head(indices))
         IN  IF one.raised
             THEN <<one.deck, deleted_count>>
             ELSE DeleteLoop_abort(one.deck, Tail(indices), deleted_count + 1, failing)

\* The deletion loop over sorted_indices: try delete_slide, count a success,
\* swallow an exception and go on.  Yields <<deck, deleted_count>>.
\* `failing` holds the indices at which the call of delete_slide raises
\* out of the document library, before anything is removed.
RECURSIVE DeleteLoop(_, _, _, _)
DeleteLoop(d, indices, deleted_count, failing) ==
    IF indices = <<>> THEN <<d, deleted_count>>
    ELSE LET one == IF Head(indices) \in failing THEN Raise(d)
                    ELSE delete_slide(d, Head(indices))
         IN  IF one.raised
             THEN DeleteLoop(one.deck, Tail(indices), deleted_count, failing)
             ELSE DeleteLoop(one.deck, Tail(indices), deleted_count + 1, failing)

delete_slides(d, slide_indices, failing) ==
    LET total_slides == Len(d)
    IN  IF ~AllInRange(slide_indices, total_slides) THEN Raise(d)
        ELSE IF Len(slide_indices) # Cardinality(ToSet(slide_indices)) THEN Raise(d)
        ELSE LET sorted_indices == sorted_reverse(slide_indices)
                 done == DeleteLoop(d, sorted_indices, 0, failing)
             IN  Return(done[1],
                        [success |-> TRUE, deleted_count |-> done[2],
                         requested_count |-> Len(slide_indices),
                         remaining_slides |-> Len(done[1])])

\* presentation.slides.add_slide(layout): a new slide, referenced by a
\* reference no slide had before, goes to the end of the list.
add_slide(d, ref) == Append(d, ref)

\* A shape a layout placeholder becomes on a slide made from the layout.
PlaceholderShape ==
    [kind |-> "placeholder", left |-> 0, top |-> 0, width |-> 1, height |-> 1]

\* The slide add_slide(layout) makes: one placeholder shape for each
\* placeholder the layout supplies.
new_slide(layout) ==
    [layout |-> layout, shapes |-> [k \in 1..layout |-> PlaceholderShape]]

\* source_shape.has_text_frame: text boxes, auto shapes and placeholders.
has_text_frame(shape) == shape.kind \in {"text", "placeholder"}

\* shapes.add_textbox / shapes.add_picture at the bounds of the source.
CopyOf(source_shape, kind) ==
    [kind |-> kind, left |-> source_shape.left, top |-> source_shape.top,
     width |-> source_shape.width, height |-> source_shape.height]

\* The statements inside the try of _copy_shape_to_slide.  `mode` tells
\* where a library call raises for this shape: "create" before the new
\* shape exists, "fill" while the text of the new text box is copied,
\* "none" nowhere.  Yields the target's shapes and whether it raised.
copy_body(source_shape, target, mode) ==
    IF mode = "create" THEN [raised |-> TRUE, shapes |-> target]
    ELSE IF has_text_frame(source_shape)
    THEN [raised |-> mode = "fill",
          shapes |-> Append(target, CopyOf(source_shape, "text"))]
    ELSE IF source_shape.kind = "picture"
    THEN [raised |-> FALSE,
          shapes |-> Append(target, CopyOf(source_shape, "picture"))]
    ELSE [raised |-> FALSE, shapes |-> target]

\* _copy_shape_to_slide: except Exception: pass
copy_shape_to_slide(source_shape, target, mode) ==
    [raised |-> FALSE, shapes |-> copy_body(source_shape, target, mode).shapes]

\* for shape in source_slide.shapes: _copy_shape_to_slide(shape, blank_slide)
RECURSIVE CopyLoop(_, _, _, _)
CopyLoop(source_shapes, target, modes, k) ==
    IF k > Len(source_shapes) THEN [raised |-> FALSE, shapes |-> target]
    ELSE LET one == copy_shape_to_slide(source_shapes[k], target, modes[k])
         IN  IF one.raised THEN one
             ELSE CopyLoop(source_shapes, one.shapes, modes, k + 1)

\* What duplicate_slide leaves: the outcome on the deck and the slide it made
\* (NoSlide when it made none).
NoSlide == [layout |-> 0, shapes |-> <<>>]
Made(out, made, clone) ==
    [raised |-> out.raised, deck |-> out.deck, result |-> out.result,
     made |-> made, clone |-> clone]

\* duplicate_slide, rejecting insert_position = total_slides.
duplicate_slide_strict(d, ref, slide_index, insert_position, content, modes) ==
    LET total_slides == Len(d)
    IN  IF slide_index < 0 \/ slide_index >= total_slides
        THEN Made(Raise(d), FALSE, NoSlide)
        ELSE IF insert_position # <<>>
                /\ (insert_position[1] < 0 \/ insert_position[1] >= total_slides)
        THEN Made(Raise(d), FALSE, NoSlide)
        ELSE LET position == IF insert_position = <<>> THEN slide_index + 1
                             ELSE insert_position[1]
                 source_slide == content[At(d, slide_index)]
                 added == add_slide(d, ref)
                 blank_slide == new_slide(source_slide.layout)
                 copied == CopyLoop(source_slide.shapes, blank_slide.shapes, modes, 1)
                 clone == [layout |-> source_slide.layout, shapes |-> copied.shapes]
                 new_slide_index == Len(added) - 1
             IN  IF copied.raised THEN Made(Raise(added), TRUE, clone)
                 ELSE IF position # new_slide_index
                 THEN LET m == move_slide(added, new_slide_index, position)
                      IN  IF m.raised THEN Made(Raise(m.deck), TRUE, clone)
                          ELSE Made(Return(m.deck, [success |-> TRUE,
                                                    original_index |-> slide_index,
                                                    new_index |-> position]),
                                    TRUE, clone)
                 ELSE Made(Return(added, [success |-> TRUE,
                                          original_index |-> slide_index,
                                          new_index |-> new_slide_index]),
                           TRUE, clone)

\* insert_position is Optional[int]: <<>> is None, <<p>> is the integer p.
\* `content` maps the slide references to the slides, `modes` gives for each
\* shape of the source slide where its copy raises.
\* duplicate_slide without the relocating move: the clone stays where
\* add_slide appended it.
duplicate_slide_in_place(d, ref, slide_index, insert_position, content, modes) ==
    LET total_slides == Len(d)
    IN  IF slide_index < 0 \/ slide_index >= total_slides
        THEN Made(Raise(d), FALSE, NoSlide)
        ELSE IF insert_position # <<>>
                /\ (insert_position[1] < 0 \/ insert_position[1] > total_slides)
        THEN Made(Raise(d), FALSE, NoSlide)
        ELSE LET position == IF insert_position = <<>> THEN slide_index + 1
                             ELSE insert_position[1]
                 source_slide == content[At(d, slide_index)]
                 added == add_slide(d, ref)
                 blank_slide == new_slide(source_slide.layout)
                 copied == CopyLoop(source_slide.shapes, blank_slide.shapes, modes, 1)
                 clone == [layout |-> source_slide.layout, shapes |-> copied.shapes]
             IN  IF copied.raised THEN Made(Raise(added), TRUE, clone)
                 ELSE Made(Return(added, [success |-> TRUE,
                                          original_index |-> slide_index,
                                          new_index |-> position]),
                           TRUE, clone)

duplicate_slide(d, ref, slide_index, insert_position, content, modes) ==
    LET total_slides == Len(d)
    IN  IF slide_index < 0 \/ slide_index >= total_slides
        THEN Made(Raise(d), FALSE, NoSlide)
        ELSE IF insert_position # <<>>
                /\ (insert_position[1] < 0 \/ insert_position[1] > total_slides)
        THEN Made(Raise(d), FALSE, NoSlide)
        ELSE LET position == IF insert_position = <<>> THEN slide_index + 1
                             ELSE insert_position[1]
                 source_slide == content[At(d, slide_index)]
                 added == add_slide(d, ref)
                 blank_slide == new_slide(source_slide.layout)
                 copied == CopyLoop(source_slide.shapes, blank_slide.shapes, modes, 1)
                 clone == [layout |-> source_slide.layout, shapes |-> copied.shapes]
                 new_slide_index == Len(added) - 1
             IN  IF copied.raised THEN Made(Raise(added), TRUE, clone)
                 ELSE IF position # new_slide_index
                 THEN LET m == move_slide(added, new_slide_index, position)
                      IN  IF m.raised THEN Made(Raise(m.deck), TRUE, clone)
                          ELSE Made(Return(m.deck, [success |-> TRUE,
                                                    original_index |-> slide_index,
                                                    new_index |-> position]),
                                    TRUE, clone)
                 ELSE Made(Return(added, [success |-> TRUE,
                                          original_index |-> slide_index,
                                          new_index |-> new_slide_index]),
                           TRUE, clone)


(* The arguments a caller may pass, for a deck of n slides.                *)

\* An index argument: every valid index, one below and one above the range.
Indices(n) == -1..n

\* insert_position: None, every valid position 0..n, one below, one above.
Positions(n) == {<<>>} \cup {<<p>> : p \in -1..(n + 1)}

\* The sequences of length k over S without a repeated element.
Injective(k, S) == {s \in [1..k -> S] : \A i, j \in 1..k : s[i] = s[j] => i = j}

\* The permutations of [0..n-1].
Perms(n) == Injective(n, 0..(n - 1))

\* new_order: every permutation, and malformed lists: the identity with one
\* entry replaced (a repeat, a negative or a too large index), a list one
\* short and lists one long.
Orders(n) ==
    Perms(n)
    \cup {[Range(n) EXCEPT ![k] = v] : k \in 1..n, v \in -1..n}
    \cup (IF n > 0 THEN {SubSeq(Range(n), 1, n - 1)} ELSE {})
    \cup {Append(Range(n), v) : v \in 0..n}

\* slide_indices: every duplicate-free list of valid indices (the empty list
\* included), and every list of one or two indices from Indices(n).
IndexLists(n) ==
    UNION {Injective(k, 0..(n - 1)) : k \in 0..n}
    \cup {<<u>> : u \in Indices(n)}
    \cup {<<u, v>> : u \in Indices(n), v \in Indices(n)}

\* The argument sets by deck length, built once.
OrdersOf == [n \in 0..MaxLen |-> Orders(n)]
IndexListsOf == [n \in 0..MaxLen |-> IndexLists(n)]

(* The state machine: one action per tool of slide_management_tools.py.    *)

NoArgs == [none |-> TRUE]
NoCall == [op |-> "none", args |-> NoArgs, pre |-> <<>>]

\* No library call failed.
NoInjection == [deletions |-> {}, copies |-> <<>>]

\* A caller that has not called, and a host whose callers have not.
NoHost ==
    LET Idle == [op |-> "none", args |-> NoArgs, pc |-> "idle", raised |-> FALSE]
    IN  [start |-> <<>>, mixed |-> FALSE, first |-> Idle, second |-> Idle]

\* The sets of indices at which a deletion of this batch may raise: none in
\* a run without library failures, any of the listed ones otherwise.
Failings(slide_indices, faulty) ==
    IF faulty THEN SUBSET (ToSet(slide_indices) \cap 0..MaxLen) ELSE {{}}

\* Where the copy of one shape may raise.
ModesOf(shape, faulty) ==
    IF ~faulty THEN {"none"}
    ELSE IF has_text_frame(shape) THEN {"none", "create", "fill"}
    ELSE {"none", "create"}

\* The failures to choose from for the shapes of a source slide.
ModeLists(shapes, faulty) ==
    {m \in [1..Len(shapes) -> {"none", "create", "fill"}] :
        \A k \in 1..Len(shapes) : m[k] \in ModesOf(shapes[k], faulty)}

Init ==
    /\ deck \in {[k \in 1..n |-> k] : n \in 0..MaxLen}
    /\ nextRef = Len(deck) + 1
    /\ last = [op |-> "none", args |-> NoArgs, raised |-> FALSE, result |-> NoArgs]
    /\ pre = deck
    /\ prev = NoCall
    /\ slides = [r \in 1..MaxLen |-> NoSlide]
    /\ before = slides
    /\ injected = NoInjection
    /\ host = NoHost

\* The tool wrapper: call the utility; return its dictionary, or an error
\* value when it raised.  `pairs` says whether the operation is one whose
\* consecutive successful calls are remembered in prev.
Call(op, args, out, pairs) ==
    /\ deck' = out.deck
    /\ last' = [op |-> op, args |-> args, raised |-> out.raised,
                result |-> out.result]
    /\ pre' = deck
    /\ before' = slides
    /\ prev' = IF pairs /\ last.op = op /\ ~last.raised /\ ~out.raised
               THEN [op |-> last.op, args |-> last.args, pre |-> pre]
               ELSE NoCall
    /\ host' = host

\* A call that touches no slide's shapes and meets no library failure.
Plain == slides' = slides /\ injected' = NoInjection

MoveSlide ==
    \E from_index, to_index \in Indices(Len(deck)) :
        /\ Call("move_slide", [from_index |-> from_index, to_index |-> to_index],
                move_slide(deck, from_index, to_index), TRUE)
        /\ Plain
        /\ UNCHANGED nextRef

SwapSlides ==
    \E index_a, index_b \in Indices(Len(deck)) :
        /\ Call("swap_slides", [index_a |-> index_a, index_b |-> index_b],
                swap_slides(deck, index_a, index_b), TRUE)
        /\ Plain
        /\ UNCHANGED nextRef

ReorderSlides ==
    \E new_order \in OrdersOf[Len(deck)] :
        /\ Call("reorder_slides", [new_order |-> new_order],
                reorder_slides(deck, new_order), TRUE)
        /\ Plain
        /\ UNCHANGED nextRef

DeleteSlide ==
    \E slide_index \in Indices(Len(deck)) :
        /\ Call("delete_slide", [slide_index |-> slide_index],
                delete_slide(deck, slide_index), FALSE)
        /\ Plain
        /\ UNCHANGED nextRef

\* delete_slides; with `faulty`, calls of delete_slide may raise.
DeleteSlidesCall(faulty) ==
    \E slide_indices \in IndexListsOf[Len(deck)] :
        \E failing \in Failings(slide_indices, faulty) :
            /\ Call("delete_slides", [slide_indices |-> slide_indices],
                    delete_slides(deck, slide_indices, failing), FALSE)
            /\ injected' = [deletions |-> failing, copies |-> <<>>]
            /\ UNCHANGED <<nextRef, slides>>

DeleteSlides == DeleteSlidesCall(FALSE)

\* The shapes of the slide at slide_index, none when there is no such slide.
ShapesAt(slide_index) ==
    IF 0 <= slide_index /\ slide_index < Len(deck)
    THEN slides[At(deck, slide_index)].shapes ELSE <<>>

\* duplicate_slide; with `faulty`, the copy of a shape may raise.  A slide
\* reference is handed out once; the model stops allocating at MaxLen.
DuplicateSlideCall(faulty) ==
    /\ nextRef <= MaxLen
    /\ \E slide_index \in Indices(Len(deck)), insert_position \in Positions(Len(deck)) :
        \E modes \in ModeLists(ShapesAt(slide_index), faulty) :
            LET out == duplicate_slide(deck, nextRef, slide_index, insert_position,
                                       slides, modes)
            IN  /\ Call("duplicate_slide",
                        [slide_index |-> slide_index,
                         insert_position |-> insert_position],
                        out, FALSE)
                /\ injected' = [deletions |-> {}, copies |-> modes]
                /\ slides' = IF out.made THEN [slides EXCEPT ![nextRef] = out.clone]
                             ELSE slides
                /\ nextRef' = IF out.made THEN nextRef + 1 ELSE nextRef

DuplicateSlide == DuplicateSlideCall(FALSE)

Next ==
    \/ MoveSlide
    \/ SwapSlides
    \/ ReorderSlides
    \/ DeleteSlide
    \/ DeleteSlides
    \/ DuplicateSlide

Spec == Init /\ [][Next]_vars

(* Runs in which calls into the document library may raise.                *)

DeleteSlidesFaulty == DeleteSlidesCall(TRUE)

NextFaults == DeleteSlidesFaulty

SpecFaults == Init /\ [][NextFaults]_vars

\* The kinds of shapes: text boxes and auto shapes, placeholders, pictures,
\* and the rest (tables, charts, connectors, groups).
Kinds == {"text", "placeholder", "picture", "other"}

\* The slides to duplicate: a layout with 0..MaxPlaceholders placeholders
\* and up to MaxShapes shapes of any kinds, each at bounds of its own.
SlideOf(l, kinds) ==
    [layout |-> l,
     shapes |-> [k \in 1..Len(kinds) |->
                    [kind |-> kinds[k], left |-> k, top |-> k,
                     width |-> 2, height |-> 1]]]

SourceSlides ==
    {SlideOf(c[1], c[2]) :
        c \in {c \in (0..MaxPlaceholders)
                        \X UNION {[1..m -> Kinds] : m \in 0..MaxShapes} :
                  Cardinality({k \in 1..Len(c[2]) : c[2][k] = "placeholder"})
                      <= c[1]}}

InitCopy ==
    /\ deck = [k \in 1..(MaxLen - 1) |-> k]
    /\ nextRef = MaxLen
    /\ last = [op |-> "none", args |-> NoArgs, raised |-> FALSE, result |-> NoArgs]
    /\ pre = deck
    /\ prev = NoCall
    /\ \E source \in SourceSlides :
           slides = [r \in 1..MaxLen |-> IF r = 1 THEN source ELSE NoSlide]
    /\ before = slides
    /\ injected = NoInjection
    /\ host = NoHost

DuplicateSlideFaulty == DuplicateSlideCall(TRUE)

NextCopy == DuplicateSlideFaulty

SpecCopy == InitCopy /\ [][NextCopy]_vars


(* Vocabulary of the properties.                                           *)

\* The last call was `op` and returned normally.
Succeeded(op) == last.op = op /\ ~last.raised

\* i is a valid index of a deck of n slides.
Valid(i, n) == 0 <= i /\ i < n

\* The 1-based place of reference e in s (references of a deck are distinct).
PlaceOf(s, e) == CHOOSE k \in 1..Len(s) : s[k] = e

\* The references of X stand in the same relative order in s and in t.
SameRelativeOrder(s, t, X) ==
    \A x, y \in X : (PlaceOf(s, x) < PlaceOf(s, y)) <=> (PlaceOf(t, x) < PlaceOf(t, y))

\* No reference occurs twice in s.
NoRepeat(s) == \A i, j \in 1..Len(s) : s[i] = s[j] => i = j

\* s without the elements at the 0-based indices of S, order kept.
RECURSIVE Without(_, _, _)
Without(s, S, k) ==
    IF k > Len(s) THEN <<>>
    ELSE (IF (k - 1) \in S THEN <<>> ELSE <<s[k]>>) \o Without(s, S, k + 1)

\* C1: move(from, to) with valid from != to succeeds and echoes from_index
\* and to_index, keeps the length, puts the slide that was at index from at
\* index to and keeps the relative order of all other slides; with
\* from = to the deck is unchanged; deck [0,1,2,3,4], move(4,1) gives
\* [0,4,1,2,3].
C1_MoveContract ==
    /\ (/\ last.op = "move_slide"
        /\ Valid(last.args.from_index, Len(pre))
        /\ Valid(last.args.to_index, Len(pre)))
       => LET f == last.args.from_index
              t == last.args.to_index
              moved == At(pre, f)
          IN  /\ ~last.raised
              /\ last.result.success
              /\ last.result.from_index = f
              /\ last.result.to_index = t
              /\ Len(deck) = Len(pre)
              /\ At(deck, t) = moved
              /\ ToSet(deck) = ToSet(pre)
              /\ SameRelativeOrder(deck, pre, ToSet(pre) \ {moved})
              /\ (f = t => deck = pre)
    /\ LET example == move_slide(<<0, 1, 2, 3, 4>>, 4, 1)
       IN  /\ ~example.raised
           /\ example.deck = <<0, 4, 1, 2, 3>>
           /\ example.result.from_index = 4
           /\ example.result.to_index = 1

\* A move across at least one other slide, in a deck of three or more.
C1_Witness ==
    /\ Succeeded("move_slide")
    /\ Len(pre) >= 3
    /\ last.args.from_index - last.args.to_index \in {2, -2}
    /\ deck # pre

\* C2: swap(a, b) with valid a != b (also |a-b| > 1) leaves the slide that
\* was at a at b, the slide that was at b at a, and every other index
\* holding the slide it held; swap(a, a) changes nothing.
C2_SwapContract ==
    (/\ last.op = "swap_slides"
     /\ Valid(last.args.index_a, Len(pre))
     /\ Valid(last.args.index_b, Len(pre)))
    => LET a == last.args.index_a
           b == last.args.index_b
       IN  /\ ~last.raised
           /\ last.result.success
           /\ Len(deck) = Len(pre)
           /\ At(deck, b) = At(pre, a)
           /\ At(deck, a) = At(pre, b)
           /\ \A k \in 0..(Len(pre) - 1) : k \notin {a, b} => At(deck, k) = At(pre, k)
           /\ (a = b => deck = pre)

\* A swap of two slides that are not neighbours.
C2_Witness ==
    /\ Succeeded("swap_slides")
    /\ last.args.index_a - last.args.index_b \in {2, -2}
    /\ deck # pre

\* C3: reorder(newOrder) with a permutation of [0..n-1] gives a deck of the
\* same length with deck[i] = oldDeck[newOrder[i]] for every i and reports
\* total_slides = n.
C3_ReorderContract ==
    (/\ last.op = "reorder_slides"
     /\ last.args.new_order \in Perms(Len(pre)))
    => /\ ~last.raised
       /\ last.result.success
       /\ last.result.total_slides = Len(pre)
       /\ Len(deck) = Len(pre)
       /\ \A i \in 0..(Len(pre) - 1) :
              At(deck, i) = At(pre, At(last.args.new_order, i))

\* A reordering by a permutation that is not its own inverse.
C3_Witness ==
    /\ Succeeded("reorder_slides")
    /\ Len(pre) >= 3
    /\ \E i \in 0..(Len(pre) - 1) :
           At(last.args.new_order, At(last.args.new_order, i)) # i

\* slide_indices holds only valid indices of a deck of n slides, none twice.
ValidList(indices, n) ==
    /\ \A k \in 1..Len(indices) : Valid(indices[k], n)
    /\ NoRepeat(indices)

\* C4: delete(index) with a valid index removes exactly the slide at that
\* index and keeps the order of the rest; delete_many(indices) with valid,
\* duplicate-free indices in any listed order yields the original deck with
\* those positions removed, the rest in their original order, with
\* deleted_count = requested_count = len(indices) and remaining_slides =
\* n - len(indices); delete_many([]) changes nothing, deleted_count = 0.
C4_DeleteContract ==
    /\ (last.op = "delete_slide" /\ Valid(last.args.slide_index, Len(pre)))
       => /\ ~last.raised
          /\ last.result.success
          /\ deck = Without(pre, {last.args.slide_index}, 1)
          /\ Len(deck) = Len(pre) - 1
    /\ (last.op = "delete_slides" /\ ValidList(last.args.slide_indices, Len(pre)))
       => LET indices == last.args.slide_indices
          IN  /\ ~last.raised
              /\ last.result.success
              /\ deck = Without(pre, ToSet(indices), 1)
              /\ last.result.deleted_count = Len(indices)
              /\ last.result.requested_count = Len(indices)
              /\ last.result.remaining_slides = Len(pre) - Len(indices)
              /\ Len(deck) = Len(pre) - Len(indices)
              /\ (indices = <<>> => deck = pre /\ last.result.deleted_count = 0)

\* A batch deletion listed in ascending order that leaves a slide behind
\* which stood between or after the deleted ones.
C4_Witness ==
    /\ Succeeded("delete_slides")
    /\ Len(last.args.slide_indices) = 2
    /\ last.args.slide_indices[1] < last.args.slide_indices[2]
    /\ Len(pre) >= 3
    /\ Len(deck) = Len(pre) - 2

\* The position duplicate(i, p) is to put the clone at: p, or i + 1 for None.
Target(args) ==
    IF args.insert_position = <<>> THEN args.slide_index + 1
    ELSE args.insert_position[1]

\* C5: duplicate(i, p) with a valid i and p in [0, n] (p = i + 1 when
\* omitted) raises the slide count by exactly 1, leaves the clone at index p
\* of the resulting deck, keeps the relative order of the slides that were
\* there, and reports new_index = p and original_index = i.
C5_DuplicateContract ==
    (/\ last.op = "duplicate_slide"
     /\ Valid(last.args.slide_index, Len(pre))
     /\ 0 <= Target(last.args) /\ Target(last.args) <= Len(pre))
    => LET p == Target(last.args)
       IN  /\ ~last.raised
           /\ last.result.success
           /\ Len(deck) = Len(pre) + 1
           /\ At(deck, p) \notin ToSet(pre)
           /\ Without(deck, {p}, 1) = pre
           /\ last.result.new_index = p
           /\ last.result.original_index = last.args.slide_index

\* A duplication of a slide that is not the last one, with the explicit
\* insert position n.
C5_Witness ==
    /\ Succeeded("duplicate_slide")
    /\ Len(pre) >= 2
    /\ last.args.slide_index < Len(pre) - 1
    /\ last.args.insert_position = <<Len(pre)>>

\* The arguments of the last call fail the validation of its operation.
Invalid ==
    LET n == Len(pre)
        a == last.args
    IN  \/ last.op = "move_slide"
           /\ ~(Valid(a.from_index, n) /\ Valid(a.to_index, n))
        \/ last.op = "swap_slides"
           /\ ~(Valid(a.index_a, n) /\ Valid(a.index_b, n))
        \/ last.op = "delete_slide" /\ ~Valid(a.slide_index, n)
        \/ last.op = "duplicate_slide"
           /\ ~(Valid(a.slide_index, n) /\ 0 <= Target(a) /\ Target(a) <= n)
        \/ last.op = "reorder_slides" /\ a.new_order \notin Perms(n)
        \/ last.op = "delete_slides" /\ ~ValidList(a.slide_indices, n)

\* C6: every validation failure of a structural operation happens before
\* any mutation: an index outside [0, n-1] (for duplicate an insert position
\* outside [0, n]), a malformed order, an out-of-range or repeated index of
\* delete_many all raise ValueError, returned as an error value, and the
\* deck is left exactly as it was.
C6_FailuresLeaveDeck ==
    /\ Invalid => last.raised
    /\ last.raised => /\ deck = pre
                      /\ last.result = [error |-> TRUE]

\* A rejected batch deletion whose list names a valid index next to an
\* invalid or repeated one, on a deck that has slides to lose.
C6_Witness ==
    /\ last.op = "delete_slides"
    /\ last.raised
    /\ Len(last.args.slide_indices) = 2
    /\ \E k \in 1..2 : Valid(last.args.slide_indices[k], Len(pre))
    /\ Len(deck) >= 2

\* C7: after any sequence of calls the deck never holds the same slide
\* reference twice; move, swap and reorder keep the set of references and
\* the length, a successful single deletion removes exactly one reference,
\* a duplication adds exactly one reference that was not in the deck before.
C7_NoDuplicateReferences ==
    /\ NoRepeat(deck)
    /\ last.op \in {"move_slide", "swap_slides", "reorder_slides"}
       => ToSet(deck) = ToSet(pre) /\ Len(deck) = Len(pre)
    /\ Succeeded("delete_slide")
       => /\ ToSet(deck) \subseteq ToSet(pre)
          /\ Cardinality(ToSet(pre) \ ToSet(deck)) = 1
          /\ Len(deck) = Len(pre) - 1
    /\ Succeeded("duplicate_slide")
       => /\ ToSet(pre) \subseteq ToSet(deck)
          /\ Cardinality(ToSet(deck) \ ToSet(pre)) = 1
          /\ Len(deck) = Len(pre) + 1

\* A duplication into a deck that had lost a slide to an earlier deletion.
C7_Witness ==
    /\ Succeeded("duplicate_slide")
    /\ Len(deck) >= 2
    /\ \E r \in 1..(nextRef - 1) : r \notin ToSet(deck)

\* C8: move(from, to) and then move(to, from), nothing in between, restores
\* the deck to its original order.
C8_MoveThenMoveBack ==
    (/\ prev.op = "move_slide"
     /\ last.args.from_index = prev.args.to_index
     /\ last.args.to_index = prev.args.from_index)
    => deck = prev.pre

\* A move across another slide followed by the move back.
C8_Witness ==
    /\ prev.op = "move_slide"
    /\ last.args.from_index = prev.args.to_index
    /\ last.args.to_index = prev.args.from_index
    /\ prev.args.to_index - prev.args.from_index \in {2, -2}
    /\ pre # deck

\* C9: swap(a, b) applied twice in a row returns the deck to its original
\* order.
C9_SwapTwice ==
    (prev.op = "swap_slides" /\ last.args = prev.args) => deck = prev.pre

\* The same swap of two slides that are not neighbours, twice.
C9_Witness ==
    /\ prev.op = "swap_slides"
    /\ last.args = prev.args
    /\ last.args.index_a - last.args.index_b \in {2, -2}
    /\ pre # deck

\* q[i] = p1[p2[i]] on 0-based index lists.
Compose(p1, p2) == [k \in 1..Len(p2) |-> At(p1, p2[k])]

\* C10: reorder with the identity permutation leaves the deck unchanged;
\* reorder(p1) followed by reorder(p2) yields the same deck as the single
\* call reorder(q) with q[i] = p1[p2[i]].
C10_ReorderComposition ==
    /\ (last.op = "reorder_slides" /\ last.args.new_order = Range(Len(pre)))
       => ~last.raised /\ deck = pre
    /\ prev.op = "reorder_slides"
       => LET single == reorder_slides(prev.pre,
                            Compose(prev.args.new_order, last.args.new_order))
          IN  /\ ~single.raised
              /\ deck = single.deck

\* Two reorderings in a row by permutations that do not commute.
C10_Witness ==
    /\ prev.op = "reorder_slides"
    /\ Compose(prev.args.new_order, last.args.new_order)
         # Compose(last.args.new_order, prev.args.new_order)

\* C11: reorder(newOrder) is accepted if and only if newOrder is a
\* permutation of [0..n-1]: a list of the wrong length, a list of the right
\* length that repeats an index, and a list with a negative or too large
\* index are rejected, and a rejection leaves the deck unchanged.
C11_ReorderAcceptsPermutations ==
    last.op = "reorder_slides"
    => /\ ~last.raised <=> last.args.new_order \in Perms(Len(pre))
       /\ last.raised => deck = pre

\* A rejected list of the right length whose entries are all valid indices,
\* one of them twice.
C11_Witness ==
    /\ last.op = "reorder_slides"
    /\ last.raised
    /\ Len(pre) >= 3
    /\ Len(last.args.new_order) = Len(pre)
    /\ \A k \in 1..Len(pre) : Valid(last.args.new_order[k], Len(pre))

\* C13: delete_many never aborts midway: when an individual deletion fails,
\* the remaining (lower) indices are still attempted and still refer to the
\* intended slides, the call returns success, deleted_count is the number
\* of deletions that succeeded, requested_count is len(indices), and
\* remaining_slides is the initial length minus deleted_count.
C13_DeleteManyGoesOn ==
    (last.op = "delete_slides" /\ ValidList(last.args.slide_indices, Len(pre)))
    => LET indices == last.args.slide_indices
           done == ToSet(indices) \ injected.deletions
       IN  /\ ~last.raised
           /\ last.result.success
           /\ deck = Without(pre, done, 1)
           /\ last.result.deleted_count = Cardinality(done)
           /\ last.result.requested_count = Len(indices)
           /\ last.result.remaining_slides = Len(pre) - last.result.deleted_count
           /\ Len(deck) = last.result.remaining_slides

\* A batch whose deletion at a higher index failed and whose deletion at a
\* lower index went through.
C13_Witness ==
    /\ Succeeded("delete_slides")
    /\ \E f \in injected.deletions :
           \E k \in 1..Len(last.args.slide_indices) :
               /\ last.args.slide_indices[k] < f
               /\ last.args.slide_indices[k] \notin injected.deletions
    /\ Len(deck) < Len(pre)

(* Python's float: an IEEE 754 double, kept as a sign and a magnitude on   *)
(* the grid 2^-60 (an integer part and two fraction limbs of 30 bits).     *)
(* Every operation rounds its exact result to 53 significant bits, ties    *)
(* to even, as the hardware does. The grid holds every double of           *)
(* magnitude in [2^-8, 2^22) exactly; the values of this model are sums    *)
(* and quotients of coordinates a few units wide and stay in that range.   *)

\* One fraction limb: 2^30.
Limb == 1073741824

\* A third of a limb's digits, the digit of the long division and of the
\* long multiplication: 2^10.
Digit == 1024

Abs(n) == IF n < 0 THEN -n ELSE n

\* float(n) for an int n.
FInt(n) == [neg |-> n < 0, i |-> Abs(n), f1 |-> 0, f2 |-> 0]

\* The number of bits of n > 0.
RECURSIVE Bits(_)
Bits(n) == IF n = 0 THEN 0 ELSE 1 + Bits(n \div 2)

\* The bits of the grid below the 53 significant ones of the magnitude m.
Drop(m) ==
    IF m.i > 0 THEN Bits(m.i) + 7
    ELSE IF m.f1 > 0 THEN Bits(m.f1) - 23
    ELSE 0

\* Carries of the fraction limbs into the next limb.
Carry(i, f1, f2) ==
    [i |-> i + ((f1 + (f2 \div Limb)) \div Limb),
     f1 |-> (f1 + (f2 \div Limb)) % Limb,
     f2 |-> f2 % Limb]

\* Round to nearest, ties to even: m is the exact magnitude cut to the grid
\* and sticky says that the exact value lies above m.
Round(neg, m, sticky) ==
    LET drop == Drop(m)
        q == 2 ^ drop
        low == m.f2 % q
        kept == m.f2 - low
        half == q \div 2
        up == \/ low > half
              \/ low = half /\ sticky
              \/ low = half /\ ~sticky /\ (kept \div q) % 2 = 1
        r == Carry(m.i, m.f1, IF up THEN kept + q ELSE kept)
    IN  IF drop <= 0
        THEN [neg |-> neg, i |-> m.i, f1 |-> m.f1, f2 |-> m.f2]
        ELSE [neg |-> neg, i |-> r.i, f1 |-> r.f1, f2 |-> r.f2]

MagLess(a, b) ==
    \/ a.i < b.i
    \/ a.i = b.i /\ a.f1 < b.f1
    \/ a.i = b.i /\ a.f1 = b.f1 /\ a.f2 < b.f2

MagAdd(a, b) == Carry(a.i + b.i, a.f1 + b.f1, a.f2 + b.f2)

\* a - b for magnitudes with b <= a.
MagSub(a, b) ==
    LET b2 == IF a.f2 < b.f2 THEN 1 ELSE 0
        b1 == IF a.f1 - b2 < b.f1 THEN 1 ELSE 0
    IN  [i |-> a.i - b.i - b1,
         f1 |-> a.f1 - b2 - b.f1 + b1 * Limb,
         f2 |-> a.f2 - b.f2 + b2 * Limb]

FNeg(x) == [x EXCEPT !.neg = ~x.neg]

\* x + y of two floats.
FAdd(x, y) ==
    IF x.neg = y.neg THEN Round(x.neg, MagAdd(x, y), FALSE)
    ELSE IF MagLess(x, y) THEN Round(y.neg, MagSub(y, x), FALSE)
    ELSE IF MagLess(y, x) THEN Round(x.neg, MagSub(x, y), FALSE)
    ELSE FInt(0)

\* x - y of two floats.
FSub(x, y) == FAdd(x, FNeg(y))

\* x / n of a float by an int n # 0 (|n| < 2^21): the long division of the
\* magnitude, digit by digit, and the rounding of the quotient.
FDiv(x, n) ==
    LET d == Abs(n)
        n1 == (x.i % d) * Digit + (x.f1 \div (Digit * Digit))
        n2 == (n1 % d) * Digit + ((x.f1 \div Digit) % Digit)
        n3 == (n2 % d) * Digit + (x.f1 % Digit)
        n4 == (n3 % d) * Digit + (x.f2 \div (Digit * Digit))
        n5 == (n4 % d) * Digit + ((x.f2 \div Digit) % Digit)
        n6 == (n5 % d) * Digit + (x.f2 % Digit)
        m == [i |-> x.i \div d,
              f1 |-> ((n1 \div d) * Digit + (n2 \div d)) * Digit + (n3 \div d),
              f2 |-> ((n4 \div d) * Digit + (n5 \div d)) * Digit + (n6 \div d)]
    IN  Round(x.neg # (n < 0), m, n6 % d # 0)

\* int(x): the float's integer part, toward zero.
FTrunc(x) == IF x.neg THEN -x.i ELSE x.i

\* sum(...) of floats: from int 0, left to right.
RECURSIVE FSum(_, _)
FSum(xs, k) == IF k = 0 THEN FInt(0) ELSE FAdd(FSum(xs, k - 1), xs[k])

\* -1, 0 or 1: the sign of a float.
Sgn(x) == IF x.i = 0 /\ x.f1 = 0 /\ x.f2 = 0 THEN 0 ELSE IF x.neg THEN -1 ELSE 1

\* x < y of two floats.
FLess(x, y) ==
    \/ Sgn(x) < Sgn(y)
    \/ Sgn(x) = 1 /\ Sgn(y) = 1 /\ MagLess(x, y)
    \/ Sgn(x) = -1 /\ Sgn(y) = -1 /\ MagLess(y, x)

\* The long multiplication of two magnitudes given by their digits (the
\* integer part and six digits of fraction each): the column of weight
\* Digit^-k, from row a on.
RECURSIVE Column(_, _, _, _)
Column(X, Y, k, a) ==
    IF a > 6 THEN 0
    ELSE (IF 0 <= k - a /\ k - a <= 6 THEN X[a + 1] * Y[k - a + 1] ELSE 0)
         + Column(X, Y, k, a + 1)

\* The carry into column k and the sum there.
RECURSIVE ColumnSum(_, _, _)
ColumnSum(X, Y, k) ==
    Column(X, Y, k, 0)
    + (IF k = 12 THEN 0 ELSE ColumnSum(X, Y, k + 1) \div Digit)

\* x * y of two floats.  The exact product has twelve digits of fraction;
\* it is rounded where its leading digits are, and `shift` counts the
\* limbs the result lies below the grid: its value is the record's value
\* times Limb^-shift.
FMul(x, y) ==
    LET FDigits(z) ==
            <<z.i,
              z.f1 \div (Digit * Digit), (z.f1 \div Digit) % Digit, z.f1 % Digit,
              z.f2 \div (Digit * Digit), (z.f2 \div Digit) % Digit, z.f2 % Digit>>
        digit(k) == ColumnSum(FDigits(x), FDigits(y), k) % Digit
        limbs == [k \in 0..4 |->
                     IF k = 0 THEN ColumnSum(FDigits(x), FDigits(y), 0)
                     ELSE (digit(3 * k - 2) * Digit + digit(3 * k - 1)) * Digit
                          + digit(3 * k)]
        small == Limb \div 256
        Below(L) == IF L[0] > 0 \/ L[1] >= small \/ (L[3] = 0 /\ L[4] = 0) THEN 0
                    ELSE IF L[1] > 0 \/ L[2] >= small \/ L[4] = 0 THEN 1
                    ELSE 2
        Scaled(r, shift) ==
            [neg |-> x.neg # y.neg, i |-> r.i, f1 |-> r.f1, f2 |-> r.f2,
             shift |-> shift]
        Rounded(L, shift) ==
            Scaled(Round(x.neg # y.neg,
                         [i |-> L[shift], f1 |-> L[shift + 1], f2 |-> L[shift + 2]],
                         \E k \in (shift + 3)..4 : L[k] # 0),
                   shift)
        Placed(L) == Rounded(L, Below(L))
    IN  Placed(limbs)

\* x / y of two floats, for a divisor that is a whole number of 1/Digit
\* below 2^11: the division of Digit * x by the int Digit * y.
FDivF(x, y) ==
    LET whole == y.i * Digit + (y.f1 \div (Digit * Digit))
        Over(scaled) ==
            IF y.f2 = 0 /\ y.f1 % (Digit * Digit) = 0 /\ scaled.shift = 0
            THEN FDiv([neg |-> x.neg, i |-> scaled.i, f1 |-> scaled.f1,
                       f2 |-> scaled.f2],
                      IF y.neg THEN -whole ELSE whole)
            ELSE CHOOSE q \in {} : TRUE
    IN  Over(FMul(x, FInt(Digit)))

(* The unit conversions: 914400 native units to the inch.                 *)

EmuPerInch == 914400

\* emu / 914400: a length in inches.
Inch(emu) == FDiv(FInt(emu), EmuPerInch)

\* pptx.util.Inches(x): int(x * 914400)
Inches(x) ==
    LET Whole(emu) == IF emu.shift > 0 THEN 0 ELSE FTrunc(emu)
    IN  Whole(FMul(x, FInt(EmuPerInch)))

(* tools/shape_alignment_tools.py: align_shapes and                        *)
(* distribute_shapes_evenly map the shapes of the slide to [error, shapes]: *)
(* whether the tool returned an error and the shapes it left behind.        *)

Min(S) == CHOOSE m \in S : \A e \in S : m <= e
Max(S) == CHOOSE m \in S : \A e \in S : e <= m

\* return {"error": ...}
Error(all) == [error |-> TRUE, shapes |-> all]

\* return {"message": ...}
Done(all) == [error |-> FALSE, shapes |-> all]

\* for shape_index in shape_indices: an index of the list is out of range.
InvalidShapeIndex(all, shape_indices) ==
    \E k \in 1..Len(shape_indices) :
        shape_indices[k] < 0 \/ shape_indices[k] >= Len(all)

\* shapes = [slide.shapes[i] for i in shape_indices]
Selected(all, shape_indices) ==
    [k \in 1..Len(shape_indices) |-> all[shape_indices[k] + 1]]

valid_alignments ==
    {"top", "bottom", "left", "right",
     "center_horizontal", "center_vertical", "center"}

\* sum(shape.left + shape.width / 2 for shape in shapes) / len(shapes)
center_x(shapes) ==
    FDiv(FSum([k \in 1..Len(shapes) |->
                  FAdd(FInt(shapes[k].left), FDiv(FInt(shapes[k].width), 2))],
              Len(shapes)),
         Len(shapes))

\* sum(shape.top + shape.height / 2 for shape in shapes) / len(shapes)
center_y(shapes) ==
    FDiv(FSum([k \in 1..Len(shapes) |->
                  FAdd(FInt(shapes[k].top), FDiv(FInt(shapes[k].height), 2))],
              Len(shapes)),
         Len(shapes))

\* The targets, with "top" aiming one unit above the topmost shape.
AlignTarget_above(shapes, alignment_type) ==
    LET on == 1..Len(shapes) IN
    CASE alignment_type = "top" ->
            [y |-> Min({shapes[k].top : k \in on}) - 1]
      [] alignment_type = "bottom" ->
            [y |-> Max({shapes[k].top + shapes[k].height : k \in on})]
      [] alignment_type = "left" ->
            [x |-> Min({shapes[k].left : k \in on})]
      [] alignment_type = "right" ->
            [x |-> Max({shapes[k].left + shapes[k].width : k \in on})]
      [] alignment_type = "center_horizontal" ->
            [x |-> center_x(shapes)]
      [] alignment_type = "center_vertical" ->
            [y |-> center_y(shapes)]
      [] alignment_type = "center" ->
            [x |-> center_x(shapes), y |-> center_y(shapes)]

\* What a branch of align_shapes computes from the shapes before its loop.
AlignTarget(shapes, alignment_type) ==
    LET on == 1..Len(shapes) IN
    CASE alignment_type = "top" ->
            [y |-> Min({shapes[k].top : k \in on})]
      [] alignment_type = "bottom" ->
            [y |-> Max({shapes[k].top + shapes[k].height : k \in on})]
      [] alignment_type = "left" ->
            [x |-> Min({shapes[k].left : k \in on})]
      [] alignment_type = "right" ->
            [x |-> Max({shapes[k].left + shapes[k].width : k \in on})]
      [] alignment_type = "center_horizontal" ->
            [x |-> center_x(shapes)]
      [] alignment_type = "center_vertical" ->
            [y |-> center_y(shapes)]
      [] alignment_type = "center" ->
            [x |-> center_x(shapes), y |-> center_y(shapes)]

\* int(center - extent / 2) with floor in place of the truncation.
CenterTo_floor(center, extent) ==
    LET x == FSub(center, FDiv(FInt(extent), 2))
    IN  IF x.neg /\ (x.f1 # 0 \/ x.f2 # 0) THEN -x.i - 1 ELSE FTrunc(x)

\* int(center): the shape's edge, not its middle, goes to the center.
CenterTo_edge(center, extent) == FTrunc(center)

\* int(center - extent / 2)
CenterTo(center, extent) == FTrunc(FSub(center, FDiv(FInt(extent), 2)))

\* The body of a branch's loop, with bottom and right setting the far edge
\* itself.
Place_edge(shape, alignment_type, t) ==
    CASE alignment_type = "top" -> [shape EXCEPT !.top = t.y]
      [] alignment_type = "bottom" -> [shape EXCEPT !.top = t.y]
      [] alignment_type = "left" -> [shape EXCEPT !.left = t.x]
      [] alignment_type = "right" -> [shape EXCEPT !.left = t.x]
      [] alignment_type = "center_horizontal" ->
            [shape EXCEPT !.left = CenterTo(t.x, shape.width)]
      [] alignment_type = "center_vertical" ->
            [shape EXCEPT !.top = CenterTo(t.y, shape.height)]
      [] alignment_type = "center" ->
            [shape EXCEPT !.left = CenterTo(t.x, shape.width),
                          !.top = CenterTo(t.y, shape.height)]

\* The body of a branch's loop: what it writes to one shape.
Place(shape, alignment_type, t) ==
    CASE alignment_type = "top" -> [shape EXCEPT !.top = t.y]
      [] alignment_type = "bottom" -> [shape EXCEPT !.top = t.y - shape.height]
      [] alignment_type = "left" -> [shape EXCEPT !.left = t.x]
      [] alignment_type = "right" -> [shape EXCEPT !.left = t.x - shape.width]
      [] alignment_type = "center_horizontal" ->
            [shape EXCEPT !.left = CenterTo(t.x, shape.width)]
      [] alignment_type = "center_vertical" ->
            [shape EXCEPT !.top = CenterTo(t.y, shape.height)]
      [] alignment_type = "center" ->
            [shape EXCEPT !.left = CenterTo(t.x, shape.width),
                          !.top = CenterTo(t.y, shape.height)]

\* for shape in shapes: the first k rounds.
RECURSIVE AlignLoop(_, _, _, _, _)
AlignLoop(all, shape_indices, alignment_type, t, k) ==
    IF k = 0 THEN all
    ELSE LET done == AlignLoop(all, shape_indices, alignment_type, t, k - 1)
             j == shape_indices[k] + 1
         IN  [done EXCEPT ![j] = Place(done[j], alignment_type, t)]

\* align_shapes asking for one shape where it asks for two.
align_shapes_one(total_slides, all, slide_index, shape_indices, alignment_type) ==
    IF slide_index < 0 \/ slide_index >= total_slides THEN Error(all)
    ELSE IF InvalidShapeIndex(all, shape_indices) THEN Error(all)
    ELSE IF Len(shape_indices) < 1 THEN Error(all)
    ELSE IF alignment_type \notin valid_alignments THEN Error(all)
    ELSE Done(AlignLoop(all, shape_indices, alignment_type,
                        AlignTarget(Selected(all, shape_indices), alignment_type),
                        Len(shape_indices)))

\* align_shapes on the deck's slides; `all` is the shape list of the slide
\* at slide_index.
align_shapes(total_slides, all, slide_index, shape_indices, alignment_type) ==
    IF slide_index < 0 \/ slide_index >= total_slides THEN Error(all)
    ELSE IF InvalidShapeIndex(all, shape_indices) THEN Error(all)
    ELSE IF Len(shape_indices) < 2 THEN Error(all)
    ELSE IF alignment_type \notin valid_alignments THEN Error(all)
    ELSE Done(AlignLoop(all, shape_indices, alignment_type,
                        AlignTarget(Selected(all, shape_indices), alignment_type),
                        Len(shape_indices)))

\* shape.left or shape.top, shape.width or shape.height: the two branches
\* of distribute_shapes_evenly are one text with the axes exchanged.
Lead(shape, direction) ==
    IF direction = "horizontal" THEN shape.left ELSE shape.top

Extent(shape, direction) ==
    IF direction = "horizontal" THEN shape.width ELSE shape.height

SetLead(shape, direction, v) ==
    IF direction = "horizontal" THEN [shape EXCEPT !.left = v]
    ELSE [shape EXCEPT !.top = v]

\* One step of the stable sort: e goes behind every entry whose key is not
\* larger.
RECURSIVE InsertByLead(_, _, _, _)
InsertByLead(s, e, all, direction) ==
    IF s = <<>> THEN <<e>>
    ELSE IF Lead(all[e + 1], direction) < Lead(all[Head(s) + 1], direction)
         THEN <<e>> \o s
         ELSE <<Head(s)>> \o InsertByLead(Tail(s), e, all, direction)

\* sorted(zip(shapes, shape_indices), key=lambda x: x[0].left), as the list
\* of the indices.
RECURSIVE sorted_shapes(_, _, _, _)
sorted_shapes(shape_indices, all, direction, k) ==
    IF k = 0 THEN <<>>
    ELSE InsertByLead(sorted_shapes(shape_indices, all, direction, k - 1),
                      shape_indices[k], all, direction)

RECURSIVE SumExtent(_, _, _, _)
SumExtent(order, all, direction, k) ==
    IF k = 0 THEN 0
    ELSE SumExtent(order, all, direction, k - 1)
         + Extent(all[order[k] + 1], direction)

\* gap = (total_width - total_shape_width) / (len(sorted_shapes) - 1)
Gap(all, order, direction) ==
    LET n == Len(order)
        first == all[order[1] + 1]
        final == all[order[n] + 1]
        total == Lead(final, direction) + Extent(final, direction)
                 - Lead(first, direction)
    IN  FDiv(FInt(total - SumExtent(order, all, direction, n)), n - 1)

\* The loop advancing the cursor by the gap alone.
RECURSIVE DistributeLoop_gap_only(_, _, _, _, _)
DistributeLoop_gap_only(all, order, direction, gap, k) ==
    IF k = 0
    THEN [shapes |-> all, current |-> FInt(Lead(all[order[1] + 1], direction))]
    ELSE LET p == DistributeLoop_gap_only(all, order, direction, gap, k - 1)
             j == order[k] + 1
         IN  [shapes |-> [p.shapes EXCEPT
                            ![j] = SetLead(p.shapes[j], direction,
                                           FTrunc(p.current))],
              current |-> FAdd(p.current, gap)]

\* for shape, _ in sorted_shapes: the first k rounds, giving the shapes and
\* the cursor current_x (current_y).
RECURSIVE DistributeLoop(_, _, _, _, _)
DistributeLoop(all, order, direction, gap, k) ==
    IF k = 0
    THEN [shapes |-> all, current |-> FInt(Lead(all[order[1] + 1], direction))]
    ELSE LET p == DistributeLoop(all, order, direction, gap, k - 1)
             j == order[k] + 1
         IN  [shapes |-> [p.shapes EXCEPT
                            ![j] = SetLead(p.shapes[j], direction,
                                           FTrunc(p.current))],
              current |-> FAdd(p.current,
                               FAdd(FInt(Extent(p.shapes[j], direction)), gap))]

\* distribute_shapes_evenly
distribute_shapes_evenly(total_slides, all, slide_index, shape_indices, direction) ==
    IF slide_index < 0 \/ slide_index >= total_slides THEN Error(all)
    ELSE IF InvalidShapeIndex(all, shape_indices) THEN Error(all)
    ELSE IF Len(shape_indices) < 3 THEN Error(all)
    ELSE IF direction \notin {"horizontal", "vertical"} THEN Error(all)
    ELSE LET order == sorted_shapes(shape_indices, all, direction,
                                    Len(shape_indices))
         IN  Done(DistributeLoop(all, order, direction,
                                 Gap(all, order, direction),
                                 Len(order)).shapes)

(* The alignment tools on one slide.  A behaviour arranges the shapes of   *)
(* the slide and calls one tool: Init ranges over every arrangement of the *)
(* box, and the contracts relate a call's outcome to the arrangement it    *)
(* found.                                                                  *)

\* Shape k of a row (of a column): its place and size along the line are
\* free, across the line every shape sits at 0 and is one unit thick.
Rect(at, sizes, k, direction) ==
    IF direction = "horizontal"
    THEN [kind |-> "text", left |-> at[k], top |-> 0,
          width |-> sizes[k], height |-> 1]
    ELSE [kind |-> "text", left |-> 0, top |-> at[k],
          width |-> 1, height |-> sizes[k]]

\* NumShapes shapes in a row or in a column, overlapping or not, with
\* edges at -MaxCoord..MaxCoord-1 and sizes 1..MaxExtent.
Arrangements ==
    {[k \in 1..NumShapes |-> Rect(at, sizes, k, direction)] :
        at \in [1..NumShapes -> (-MaxCoord)..(MaxCoord - 1)],
        sizes \in [1..NumShapes -> 1..MaxExtent],
        direction \in {"horizontal", "vertical"}}

\* shape_indices: every list of valid indices shorter than the number of
\* shapes, repeats included, all the shapes in every order, and lists
\* holding one index out of range.
ShapeLists(n) ==
    UNION {[1..k -> 0..(n - 1)] : k \in 0..(n - 1)}
    \cup Injective(n, 0..(n - 1))
    \cup {<<u>> : u \in {-1, n}}
    \cup {<<0, u>> : u \in {-1, n}}
    \cup {<<u, 1, 2>> : u \in {-1, n}}

\* The calls: any list on the slide, and a sound list on a slide index out
\* of range.
Selections(n) ==
    {[slide_index |-> 0, shape_indices |-> l] : l \in ShapeLists(n)}
    \cup {[slide_index |-> s, shape_indices |-> [k \in 1..n |-> k - 1]] :
             s \in {-1, 1}}

AlignmentTypes ==
    {"top", "bottom", "left", "right",
     "center_horizontal", "center_vertical", "center", "middle"}

Directions == {"horizontal", "vertical", "diagonal"}

InitShapes ==
    /\ deck = <<1>>
    /\ nextRef = 2
    /\ last = [op |-> "none", args |-> NoArgs, raised |-> FALSE, result |-> NoArgs]
    /\ pre = deck
    /\ prev = NoCall
    /\ \E a \in Arrangements :
           slides = [r \in 1..MaxLen |->
                        IF r = 1 THEN [layout |-> 0, shapes |-> a] ELSE NoSlide]
    /\ before = slides
    /\ injected = NoInjection
    /\ host = NoHost

\* The tool's answer and the slide it leaves.
Answer(out) == [raised |-> FALSE, deck |-> deck, result |-> [error |-> out.error]]

Arranged(slide_index, out) ==
    IF 0 <= slide_index /\ slide_index < Len(deck)
    THEN [slides EXCEPT ![At(deck, slide_index)].shapes = out.shapes]
    ELSE slides

\* The tool align_shapes called with one of the selections `sels` and any
\* alignment type, on the slide as arranged (the one call of the behaviour).
AlignShapesOn(sels) ==
    /\ last.op = "none"
    /\ \E sel \in sels, alignment_type \in AlignmentTypes :
        LET out == align_shapes(Len(deck), ShapesAt(sel.slide_index),
                                sel.slide_index, sel.shape_indices,
                                alignment_type)
        IN  /\ Call("align_shapes",
                    [slide_index |-> sel.slide_index,
                     shape_indices |-> sel.shape_indices,
                     alignment_type |-> alignment_type],
                    Answer(out), FALSE)
            /\ slides' = Arranged(sel.slide_index, out)
            /\ injected' = NoInjection
            /\ UNCHANGED nextRef

\* The tool distribute_shapes_evenly called with one of the selections and
\* one of the directions, on the slide as arranged.
DistributeShapesOn(sels, directions) ==
    /\ last.op = "none"
    /\ \E sel \in sels, direction \in directions :
        LET out == distribute_shapes_evenly(Len(deck), ShapesAt(sel.slide_index),
                                            sel.slide_index, sel.shape_indices,
                                            direction)
        IN  /\ Call("distribute_shapes_evenly",
                    [slide_index |-> sel.slide_index,
                     shape_indices |-> sel.shape_indices,
                     direction |-> direction],
                    Answer(out), FALSE)
            /\ slides' = Arranged(sel.slide_index, out)
            /\ injected' = NoInjection
            /\ UNCHANGED nextRef

AlignShapes ==
    /\ last.op = "none"
    /\ AlignShapesOn(Selections(NumShapes))

DistributeShapes ==
    /\ last.op = "none"
    /\ DistributeShapesOn(Selections(NumShapes), Directions)

NextShapes ==
    \/ AlignShapes
    \/ DistributeShapes

SpecShapes == InitShapes /\ [][NextShapes]_vars

(* The same align_shapes call made twice in a row.                         *)

\* The tool align_shapes called again with the arguments of the call just
\* made, on the slide as that call left it.
AlignShapesAgain ==
    /\ last.op = "align_shapes"
    /\ prev.op = "none"
    /\ LET out == align_shapes(Len(deck), ShapesAt(last.args.slide_index),
                               last.args.slide_index, last.args.shape_indices,
                               last.args.alignment_type)
       IN  /\ Call("align_shapes", last.args, Answer(out), TRUE)
           /\ slides' = Arranged(last.args.slide_index, out)
           /\ injected' = NoInjection
           /\ UNCHANGED nextRef

NextTwice ==
    \/ AlignShapes
    \/ AlignShapesAgain

SpecTwice == InitShapes /\ [][NextTwice]_vars

(* utils/presentation_utils.py under a host that lets two callers run on   *)
(* the same presentation without serializing them.  The first caller's     *)
(* swap_slides or duplicate_slide is made of two steps, and the second     *)
(* caller's delete_slide or move_slide may run before, between or after    *)
(* them.                                                                   *)

\* swap_slides: its first and its second move_slide call.
FirstMove(d, index_a, index_b) ==
    IF index_a > index_b THEN move_slide(d, index_a, index_b)
    ELSE move_slide(d, index_b, index_a)

\* The second move, of the index the first move took the slide from.
SecondMove_unshifted(d, index_a, index_b) ==
    IF index_a > index_b THEN move_slide(d, index_b, index_a)
    ELSE move_slide(d, index_a, index_b)

SecondMove(d, index_a, index_b) ==
    IF index_a > index_b THEN move_slide(d, index_b + 1, index_a)
    ELSE move_slide(d, index_a + 1, index_b)

\* What the first caller's step leaves: the deck and the caller's record.
Stepped(d, op, args, pc, raised) ==
    /\ deck' = d
    /\ host' = [host EXCEPT !.first = [op |-> op, args |-> args, pc |-> pc,
                                       raised |-> raised]]

\* swap_slides up to and including its first move.
SwapFirstMove ==
    /\ host.first.pc = "idle"
    /\ \E index_a, index_b \in Indices(Len(deck)) :
           LET total_slides == Len(deck)
               args == [index_a |-> index_a, index_b |-> index_b]
           IN  IF index_a < 0 \/ index_a >= total_slides
               THEN Stepped(deck, "swap_slides", args, "done", TRUE)
               ELSE IF index_b < 0 \/ index_b >= total_slides
               THEN Stepped(deck, "swap_slides", args, "done", TRUE)
               ELSE IF index_a = index_b
               THEN Stepped(deck, "swap_slides", args, "done", FALSE)
               ELSE LET m == FirstMove(deck, index_a, index_b)
                    IN  Stepped(m.deck, "swap_slides", args,
                                IF m.raised THEN "done" ELSE "between", m.raised)
    /\ UNCHANGED <<nextRef, last, pre, prev, slides, before, injected>>

\* swap_slides from its second move on.
SwapSecondMove ==
    /\ host.first.pc = "between"
    /\ host.first.op = "swap_slides"
    /\ LET m == SecondMove(deck, host.first.args.index_a, host.first.args.index_b)
       IN  Stepped(m.deck, "swap_slides", host.first.args, "done", m.raised)
    /\ UNCHANGED <<nextRef, last, pre, prev, slides, before, injected>>

\* duplicate_slide up to and including add_slide and the copy of the
\* shapes.
DuplicateAppend ==
    /\ host.first.pc = "idle"
    /\ nextRef <= MaxLen
    /\ \E slide_index \in Indices(Len(deck)), insert_position \in Positions(Len(deck)) :
           LET total_slides == Len(deck)
               args == [slide_index |-> slide_index,
                        insert_position |-> insert_position]
               whole == duplicate_slide(deck, nextRef, slide_index, insert_position,
                                        slides,
                                        [k \in 1..Len(ShapesAt(slide_index)) |-> "none"])
           IN  IF slide_index < 0 \/ slide_index >= total_slides
               THEN /\ Stepped(deck, "duplicate_slide", args, "done", TRUE)
                    /\ UNCHANGED <<nextRef, slides>>
               ELSE IF insert_position # <<>>
                       /\ (insert_position[1] < 0 \/ insert_position[1] > total_slides)
               THEN /\ Stepped(deck, "duplicate_slide", args, "done", TRUE)
                    /\ UNCHANGED <<nextRef, slides>>
               ELSE /\ Stepped(add_slide(deck, nextRef), "duplicate_slide", args,
                               "between", FALSE)
                    /\ slides' = [slides EXCEPT ![nextRef] = whole.clone]
                    /\ nextRef' = nextRef + 1
    /\ UNCHANGED <<last, pre, prev, before, injected>>

\* duplicate_slide from new_slide_index on: the relocating move.
DuplicateMove ==
    /\ host.first.pc = "between"
    /\ host.first.op = "duplicate_slide"
    /\ LET slide_index == host.first.args.slide_index
           insert_position == IF host.first.args.insert_position = <<>>
                              THEN slide_index + 1
                              ELSE host.first.args.insert_position[1]
           new_slide_index == Len(deck) - 1
           m == move_slide(deck, new_slide_index, insert_position)
       IN  IF insert_position # new_slide_index
           THEN Stepped(m.deck, "duplicate_slide", host.first.args, "done", m.raised)
           ELSE Stepped(deck, "duplicate_slide", host.first.args, "done", FALSE)
    /\ UNCHANGED <<nextRef, last, pre, prev, slides, before, injected>>

\* The second caller's call, whole: it ran between the first caller's two
\* steps when the first caller stood between them.
Second(op, args, out) ==
    /\ host.second.pc = "idle"
    /\ deck' = out.deck
    /\ host' = [host EXCEPT !.second = [op |-> op, args |-> args, pc |-> "done",
                                        raised |-> out.raised],
                            !.mixed = (host.first.pc = "between")]
    /\ UNCHANGED <<nextRef, last, pre, prev, slides, before, injected>>

SecondDelete ==
    \E slide_index \in Indices(Len(deck)) :
        Second("delete_slide", [slide_index |-> slide_index],
               delete_slide(deck, slide_index))

SecondMoveSlide ==
    \E from_index, to_index \in Indices(Len(deck)) :
        Second("move_slide", [from_index |-> from_index, to_index |-> to_index],
               move_slide(deck, from_index, to_index))

InitHost ==
    /\ deck \in {[k \in 1..n |-> k] : n \in 1..MaxLen}
    /\ nextRef = Len(deck) + 1
    /\ last = [op |-> "none", args |-> NoArgs, raised |-> FALSE, result |-> NoArgs]
    /\ pre = deck
    /\ prev = NoCall
    /\ slides = [r \in 1..MaxLen |-> NoSlide]
    /\ before = slides
    /\ injected = NoInjection
    /\ host = [NoHost EXCEPT !.start = deck]

NextHost ==
    \/ SwapFirstMove
    \/ SwapSecondMove
    \/ DuplicateAppend
    \/ DuplicateMove
    \/ SecondDelete
    \/ SecondMoveSlide

SpecHost == InitHost /\ [][NextHost]_vars

(* tools/shape_alignment_tools.py and tools/shape_positioning_tools.py:   *)
(* the analyses of a slide's layout.  They change nothing; each maps the  *)
(* shapes of the slide to the answer it returns.  Names, messages and     *)
(* overlap_percentage are left out of the answers.                         *)

\* The edges of a shape in inches: left and top are the converted
\* coordinates, right and bottom the sums of two converted lengths.
Edges(shape) ==
    [left |-> Inch(shape.left),
     top |-> Inch(shape.top),
     right |-> FAdd(Inch(shape.left), Inch(shape.width)),
     bottom |-> FAdd(Inch(shape.top), Inch(shape.height))]

\* The overlap test with <= in place of <: touching shapes overlap.
Separate_strict(a, b) ==
    \/ FLess(a.right, b.left)
    \/ FLess(b.right, a.left)
    \/ FLess(a.bottom, b.top)
    \/ FLess(b.bottom, a.top)

\* s1_right <= s2_left or s1_left >= s2_right or s1_bottom <= s2_top or
\* s1_top >= s2_bottom
Separate(a, b) ==
    \/ ~FLess(b.left, a.right)
    \/ ~FLess(a.left, b.right)
    \/ ~FLess(b.top, a.bottom)
    \/ ~FLess(a.top, b.bottom)

\* The overlap with its corner taken from the first shape alone.
Intersection_first(a, b) ==
    LET FMin(x, y) == IF FLess(y, x) THEN y ELSE x
        Area(overlap_width, overlap_height) ==
            [left |-> a.left, top |-> a.top,
             width |-> overlap_width, height |-> overlap_height,
             area |-> FMul(overlap_width, overlap_height)]
    IN  Area(FSub(FMin(a.right, b.right), a.left),
             FSub(FMin(a.bottom, b.bottom), a.top))

\* overlap_left, overlap_top, overlap_width, overlap_height, overlap_area
Intersection(a, b) ==
    LET FMax(x, y) == IF FLess(x, y) THEN y ELSE x
        FMin(x, y) == IF FLess(y, x) THEN y ELSE x
        Area(overlap_left, overlap_top, overlap_width, overlap_height) ==
            [left |-> overlap_left, top |-> overlap_top,
             width |-> overlap_width, height |-> overlap_height,
             area |-> FMul(overlap_width, overlap_height)]
        Sides(overlap_left, overlap_top, overlap_right, overlap_bottom) ==
            Area(overlap_left, overlap_top,
                 FSub(overlap_right, overlap_left),
                 FSub(overlap_bottom, overlap_top))
    IN  Sides(FMax(a.left, b.left), FMax(a.top, b.top),
              FMin(a.right, b.right), FMin(a.bottom, b.bottom))

\* for i in range(len(shapes)): for j in range(i + 1, len(shapes)): the
\* rounds from the k-th pair on, pair k being i = k div n, j = k mod n.
RECURSIVE OverlapLoop(_, _)
OverlapLoop(shapes, k) ==
    LET n == Len(shapes)
        Overlap(i, j, both) ==
            [shape1_index |-> i, shape2_index |-> j,
             overlap_area |-> both.area,
             overlap_bounds |-> [left |-> both.left, top |-> both.top,
                                 width |-> both.width, height |-> both.height]]
        Round2(i, j, s1, s2) ==
            IF i < j /\ ~Separate(s1, s2)
            THEN <<Overlap(i, j, Intersection(s1, s2))>>
            ELSE <<>>
    IN  IF k >= n * n THEN <<>>
        ELSE Round2(k \div n, k % n,
                    Edges(shapes[(k \div n) + 1]), Edges(shapes[(k % n) + 1]))
             \o OverlapLoop(shapes, k + 1)

detect_overlapping_elements(total_slides, shapes, slide_index) ==
    LET Answered(overlaps) ==
            [error |-> FALSE,
             total_shapes |-> Len(shapes),
             overlapping_pairs |-> Len(overlaps),
             overlaps |-> overlaps,
             has_overlaps |-> Len(overlaps) > 0]
    IN  IF slide_index < 0 \/ slide_index >= total_slides THEN [error |-> TRUE]
        ELSE Answered(OverlapLoop(shapes, 0))

\* One entry of overlapping_shapes.
Overlapped(shapes, i, ref, shape) ==
    [index |-> i, left |-> shape.left, top |-> shape.top,
     width |-> Inch(shapes[i + 1].width),
     height |-> Inch(shapes[i + 1].height),
     overlap_area |-> Intersection(ref, shape).area]

\* The loop of get_overlapping_shapes with the other overlap test: a shape
\* that only touches the reference shape is listed too.
RECURSIVE ReferenceLoop_strict(_, _, _)
ReferenceLoop_strict(shapes, reference_shape_index, i) ==
    LET Round2(ref, shape) ==
            IF i # reference_shape_index /\ ~Separate_strict(shape, ref)
            THEN <<Overlapped(shapes, i, ref, shape)>>
            ELSE <<>>
    IN  IF i >= Len(shapes) THEN <<>>
        ELSE Round2(Edges(shapes[reference_shape_index + 1]), Edges(shapes[i + 1]))
             \o ReferenceLoop_strict(shapes, reference_shape_index, i + 1)

\* for i, shape in enumerate(slide.shapes): the rounds from shape i on.
RECURSIVE ReferenceLoop(_, _, _)
ReferenceLoop(shapes, reference_shape_index, i) ==
    LET Round2(ref, shape) ==
            IF i # reference_shape_index /\ ~Separate(shape, ref)
            THEN <<Overlapped(shapes, i, ref, shape)>>
            ELSE <<>>
    IN  IF i >= Len(shapes) THEN <<>>
        ELSE Round2(Edges(shapes[reference_shape_index + 1]), Edges(shapes[i + 1]))
             \o ReferenceLoop(shapes, reference_shape_index, i + 1)

get_overlapping_shapes(total_slides, shapes, slide_index, reference_shape_index) ==
    LET Answered(overlapping_shapes) ==
            [error |-> FALSE,
             reference_shape_index |-> reference_shape_index,
             overlapping_shapes |-> overlapping_shapes,
             count |-> Len(overlapping_shapes)]
    IN  IF slide_index < 0 \/ slide_index >= total_slides THEN [error |-> TRUE]
        ELSE IF reference_shape_index < 0 \/ reference_shape_index >= Len(shapes)
        THEN [error |-> TRUE]
        ELSE Answered(ReferenceLoop(shapes, reference_shape_index, 0))

\* tolerance = 0.1
tolerance == FDiv(FInt(1), 10)

\* left_positions, right_positions, center_x_positions, top_positions: the
\* entry of one shape.
Position(shape, type) ==
    CASE type = "left_alignment" -> Inch(shape.left)
      [] type = "right_alignment" ->
            FDiv(FInt(shape.left + shape.width), EmuPerInch)
      [] type = "center_horizontal_alignment" ->
            FDiv(FAdd(FInt(shape.left), FDiv(FInt(shape.width), 2)), EmuPerInch)
      [] type = "top_alignment" -> Inch(shape.top)

\* [j for j in range(len(shapes)) if j != i and
\*  abs(positions[i] - positions[j]) <= tolerance]
Near(shapes, type, i) ==
    SelectSeq(Range(Len(shapes)),
              LAMBDA j : /\ j # i
                         /\ ~MagLess(tolerance,
                                     FSub(Position(shapes[i + 1], type),
                                          Position(shapes[j + 1], type))))

\* The loop of one feature, from seed i on.
RECURSIVE NearLoop(_, _, _)
NearLoop(shapes, type, i) ==
    LET Suggested(near) ==
            IF Len(near) >= 1
            THEN <<[type |-> type, shape_indices |-> <<i>> \o near]>>
            ELSE <<>>
    IN  IF i >= Len(shapes) THEN <<>>
        ELSE Suggested(Near(shapes, type, i)) \o NearLoop(shapes, type, i + 1)

\* The distribution suggestions, for three shapes and more.
Distributions(shapes) ==
    LET n == Len(shapes)
        top_variance == FSub(Inch(Max({shapes[k].top : k \in 1..n})),
                             Inch(Min({shapes[k].top : k \in 1..n})))
        left_variance == FSub(Inch(Max({shapes[k].left : k \in 1..n})),
                              Inch(Min({shapes[k].left : k \in 1..n})))
        Within(twice) ==
            (IF ~MagLess(twice, top_variance)
             THEN <<[type |-> "horizontal_distribution",
                     shape_indices |-> sorted_shapes(Range(n), shapes, "horizontal", n)]>>
             ELSE <<>>)
            \o (IF ~MagLess(twice, left_variance)
                THEN <<[type |-> "vertical_distribution",
                        shape_indices |-> sorted_shapes(Range(n), shapes, "vertical", n)]>>
                ELSE <<>>)
    IN  IF n < 3 THEN <<>> ELSE Within(FMul(tolerance, FInt(2)))

\* key = (suggestion["type"], tuple(sorted(suggestion["shape_indices"])))
Key(suggestion) == <<suggestion.type, sorted(suggestion.shape_indices)>>

\* for suggestion in suggestions: the first k rounds.
RECURSIVE Unique(_, _)
Unique(suggestions, k) ==
    IF k = 0 THEN <<>>
    ELSE IF \E m \in 1..(k - 1) : Key(suggestions[m]) = Key(suggestions[k])
    THEN Unique(suggestions, k - 1)
    ELSE Append(Unique(suggestions, k - 1), suggestions[k])

suggest_alignment_improvements(total_slides, shapes, slide_index) ==
    LET Answered(unique_suggestions) ==
            [error |-> FALSE,
             suggestions |-> unique_suggestions,
             suggestion_count |-> Len(unique_suggestions)]
        Deduplicated(suggestions) == Answered(Unique(suggestions, Len(suggestions)))
    IN  IF slide_index < 0 \/ slide_index >= total_slides THEN [error |-> TRUE]
        ELSE IF Len(shapes) < 2 THEN [error |-> FALSE, suggestions |-> <<>>]
        ELSE Deduplicated(NearLoop(shapes, "left_alignment", 0)
                          \o NearLoop(shapes, "right_alignment", 0)
                          \o NearLoop(shapes, "center_horizontal_alignment", 0)
                          \o NearLoop(shapes, "top_alignment", 0)
                          \o Distributions(shapes))

\* The gap of the pair along the direction, when the pair has one: the
\* extents across the direction overlap and one shape ends where the other
\* starts, or before.
Gaps(s1, s2, direction) ==
    LET lead(s) == IF direction = "horizontal" THEN s.left ELSE s.top
        trail(s) == IF direction = "horizontal" THEN s.right ELSE s.bottom
        side(s) == IF direction = "horizontal" THEN s.top ELSE s.left
        far(s) == IF direction = "horizontal" THEN s.bottom ELSE s.right
    IN  IF FLess(side(s1), far(s2)) /\ FLess(side(s2), far(s1))
        THEN IF ~FLess(lead(s2), trail(s1))
             THEN <<FSub(lead(s2), trail(s1))>>
             ELSE IF ~FLess(lead(s1), trail(s2))
             THEN <<FSub(lead(s1), trail(s2))>>
             ELSE <<>>
        ELSE <<>>

\* horizontal_gaps and vertical_gaps: the pair loop from pair k on.
RECURSIVE GapLoop(_, _, _)
GapLoop(shapes, direction, k) ==
    LET n == Len(shapes)
        i == k \div n
        j == k % n
    IN  IF k >= n * n THEN <<>>
        ELSE (IF i < j
              THEN Gaps(Edges(shapes[i + 1]), Edges(shapes[j + 1]), direction)
              ELSE <<>>)
             \o GapLoop(shapes, direction, k + 1)

\* get_layout_metrics, as far as its spacing analysis.
get_layout_metrics(total_slides, shapes, slide_index) ==
    IF slide_index < 0 \/ slide_index >= total_slides THEN [error |-> TRUE]
    ELSE IF Len(shapes) = 0 THEN [error |-> FALSE, total_shapes |-> 0]
    ELSE [error |-> FALSE,
          total_shapes |-> Len(shapes),
          horizontal_gaps |-> GapLoop(shapes, "horizontal", 0),
          vertical_gaps |-> GapLoop(shapes, "vertical", 0)]

(* The analyses called on slides laid out on a grid of tenths of an inch.  *)

\* The slides analysed: two shapes anywhere on the grid, with sides of
\* 1..MaxExtent tenths of an inch; NumShapes squares on the diagonal of the
\* grid; and five shapes of one inch by half an inch in a column, their tops
\* at 1.0, 1.02, 1.2, 1.5 and 1.6 inches.
Layouts ==
    LET Tenths(k) == k * (EmuPerInch \div 10)
        Pairs ==
            {<<[kind |-> "text", left |-> Tenths(g[1]), top |-> Tenths(g[2]),
                width |-> Tenths(g[3]), height |-> Tenths(g[4])],
               [kind |-> "text", left |-> Tenths(h[1]), top |-> Tenths(h[2]),
                width |-> Tenths(h[3]), height |-> Tenths(h[4])]>> :
                g, h \in (0..MaxTenth) \X (0..MaxTenth)
                         \X (1..MaxExtent) \X (1..MaxExtent)}
        Diagonals ==
            {[k \in 1..NumShapes |->
                 [kind |-> "text", left |-> Tenths(at[k]), top |-> Tenths(at[k]),
                  width |-> Tenths(sizes[k]), height |-> Tenths(sizes[k])]] :
                at \in [1..NumShapes -> 0..MaxTenth],
                sizes \in [1..NumShapes -> 1..MaxExtent]}
        Column5 ==
            [k \in 1..5 |->
                [kind |-> "text", left |-> 0,
                 top |-> <<914400, 932688, 1097280, 1371600, 1463040>>[k],
                 width |-> EmuPerInch, height |-> EmuPerInch \div 2]]
    IN  Pairs \cup Diagonals \cup {Column5}

InitLayout ==
    /\ deck = <<1>>
    /\ nextRef = 2
    /\ last = [op |-> "none", args |-> NoArgs, raised |-> FALSE, result |-> NoArgs]
    /\ pre = deck
    /\ prev = NoCall
    /\ \E a \in Layouts :
           slides = [r \in 1..MaxLen |->
                        IF r = 1 THEN [layout |-> 0, shapes |-> a] ELSE NoSlide]
    /\ before = slides
    /\ injected = NoInjection
    /\ host = NoHost

\* A call of an analysis: the one call of the behaviour; it leaves the
\* slides as they are.
Analysis(op, args, result) ==
    /\ last.op = "none"
    /\ Call(op, args, [raised |-> FALSE, deck |-> deck, result |-> result], FALSE)
    /\ slides' = slides
    /\ injected' = NoInjection
    /\ UNCHANGED nextRef

DetectOverlappingElements ==
    \E slide_index \in -1..1 :
        Analysis("detect_overlapping_elements", [slide_index |-> slide_index],
                 detect_overlapping_elements(Len(deck), ShapesAt(slide_index),
                                             slide_index))

GetOverlappingShapes ==
    \E slide_index \in -1..1, reference_shape_index \in -1..Len(ShapesAt(0)) :
        /\ slide_index # 0 => reference_shape_index = 0
        /\ Analysis("get_overlapping_shapes",
                    [slide_index |-> slide_index,
                     reference_shape_index |-> reference_shape_index],
                    get_overlapping_shapes(Len(deck), ShapesAt(slide_index),
                                           slide_index, reference_shape_index))

SuggestAlignmentImprovements ==
    \E slide_index \in -1..1 :
        Analysis("suggest_alignment_improvements", [slide_index |-> slide_index],
                 suggest_alignment_improvements(Len(deck), ShapesAt(slide_index),
                                                slide_index))

GetLayoutMetrics ==
    \E slide_index \in -1..1 :
        Analysis("get_layout_metrics", [slide_index |-> slide_index],
                 get_layout_metrics(Len(deck), ShapesAt(slide_index), slide_index))

NextLayout ==
    \/ DetectOverlappingElements
    \/ GetOverlappingShapes
    \/ SuggestAlignmentImprovements
    \/ GetLayoutMetrics

SpecLayout == InitLayout /\ [][NextLayout]_vars

(* tools/shape_positioning_tools.py: the tools that set the bounds of one *)
(* shape.  Each maps the shapes of the slide to [error, shapes]: whether   *)
(* the tool returned an error and the shapes it left behind.               *)

\* The assignments shape.left = ..., shape.width = ... to the shape at
\* shape_index in their order, up to the first that raises: the library
\* takes any left and top, and an extent of zero or more (a negative width
\* or height raises ValueError).
RECURSIVE Assign(_, _, _)
Assign(shapes, shape_index, todo) ==
    IF todo = <<>> THEN [error |-> FALSE, shapes |-> shapes]
    ELSE IF Head(todo)[1] \in {"width", "height"} /\ Head(todo)[2] < 0
    THEN [error |-> TRUE, shapes |-> shapes]
    ELSE Assign([shapes EXCEPT ![shape_index + 1][Head(todo)[1]] = Head(todo)[2]],
                shape_index, Tail(todo))

\* The checks of slide_index and shape_index that every tool starts with.
NoSuchShape(total_slides, shapes, slide_index, shape_index) ==
    \/ slide_index < 0 \/ slide_index >= total_slides
    \/ shape_index < 0 \/ shape_index >= Len(shapes)

\* left and top pass is_non_negative, width and height pass is_positive.
update_shape_position(total_slides, shapes, slide_index, shape_index, left, top, width, height) ==
    IF NoSuchShape(total_slides, shapes, slide_index, shape_index)
    THEN [error |-> TRUE, shapes |-> shapes]
    ELSE IF ~(Sgn(left) >= 0 /\ Sgn(top) >= 0 /\ Sgn(width) > 0 /\ Sgn(height) > 0)
    THEN [error |-> TRUE, shapes |-> shapes]
    ELSE Assign(shapes, shape_index,
                <<<<"left", Inches(left)>>, <<"top", Inches(top)>>,
                  <<"width", Inches(width)>>, <<"height", Inches(height)>>>>)

\* width and height pass is_positive.
update_shape_size(total_slides, shapes, slide_index, shape_index, width, height) ==
    IF NoSuchShape(total_slides, shapes, slide_index, shape_index)
    THEN [error |-> TRUE, shapes |-> shapes]
    ELSE IF ~(Sgn(width) > 0 /\ Sgn(height) > 0)
    THEN [error |-> TRUE, shapes |-> shapes]
    ELSE Assign(shapes, shape_index,
                <<<<"width", Inches(width)>>, <<"height", Inches(height)>>>>)

\* new_left = max(0, original_left + delta_x), and new_top likewise.
move_shape(total_slides, shapes, slide_index, shape_index, delta_x, delta_y) ==
    LET Clamped(new) == IF Sgn(new) < 0 THEN FInt(0) ELSE new
    IN  IF NoSuchShape(total_slides, shapes, slide_index, shape_index)
        THEN [error |-> TRUE, shapes |-> shapes]
        ELSE Assign(shapes, shape_index,
                    <<<<"left",
                        Inches(Clamped(FAdd(Inch(shapes[shape_index + 1].left),
                                            delta_x)))>>,
                      <<"top",
                        Inches(Clamped(FAdd(Inch(shapes[shape_index + 1].top),
                                            delta_y)))>>>>)

\* Only a picture has the attribute `image`.  The requested size is kept, or
\* fitted to the aspect ratio of the picture.
resize_image(total_slides, shapes, slide_index, shape_index, width, height, maintain_aspect_ratio) ==
    LET shape == shapes[shape_index + 1]
        Sized(final_width, final_height) ==
            Assign(shapes, shape_index,
                   <<<<"width", Inches(final_width)>>,
                     <<"height", Inches(final_height)>>>>)
        Fitted(original_aspect_ratio, new_aspect_ratio) ==
            IF FLess(original_aspect_ratio, new_aspect_ratio)
            THEN Sized(FMul(height, original_aspect_ratio), height)
            ELSE Sized(width,
                       IF Sgn(original_aspect_ratio) # 0
                       THEN FDivF(width, original_aspect_ratio) ELSE width)
    IN  IF NoSuchShape(total_slides, shapes, slide_index, shape_index)
        THEN [error |-> TRUE, shapes |-> shapes]
        ELSE IF shape.kind # "picture" THEN [error |-> TRUE, shapes |-> shapes]
        ELSE IF maintain_aspect_ratio
        THEN Fitted(IF shape.height # 0
                    THEN FDivF(Inch(shape.width), Inch(shape.height)) ELSE FInt(1),
                    IF Sgn(height) # 0 THEN FDivF(width, height) ELSE FInt(1))
        ELSE Sized(width, height)

(* The tools that change the bounds of shapes, called on a slide of        *)
(* NumShapes shapes, the last of them a picture; each shape is half an     *)
(* inch or an inch wide and high.  A behaviour makes one call.              *)

\* Lengths in inches that a caller passes: negative, zero, 2^-20, a half
\* and two.
Lengths ==
    {FInt(-1), FInt(0), FDiv(FInt(1), 1048576), FDiv(FInt(1), 2), FInt(2)}

InitGeometry ==
    /\ deck = <<1>>
    /\ nextRef = 2
    /\ last = [op |-> "none", args |-> NoArgs, raised |-> FALSE, result |-> NoArgs]
    /\ pre = deck
    /\ prev = NoCall
    /\ \E widths \in [1..NumShapes -> {EmuPerInch \div 2, EmuPerInch}],
          height \in {EmuPerInch \div 2, EmuPerInch} :
           slides = [r \in 1..MaxLen |->
                        IF r = 1
                        THEN [layout |-> 0,
                              shapes |->
                                  [k \in 1..NumShapes |->
                                      [kind |-> IF k = NumShapes THEN "picture"
                                                ELSE "text",
                                       left |-> (k - 1) * (EmuPerInch \div 2),
                                       top |-> (NumShapes - k) * (EmuPerInch \div 2),
                                       width |-> widths[k],
                                       height |-> IF k = NumShapes THEN height
                                                  ELSE EmuPerInch \div 2]]]
                        ELSE NoSlide]
    /\ before = slides
    /\ injected = NoInjection
    /\ host = NoHost

\* A call of a tool on one shape.
Reshape(op, args, out) ==
    /\ Call(op, args, Answer(out), FALSE)
    /\ slides' = Arranged(args.slide_index, out)
    /\ injected' = NoInjection
    /\ UNCHANGED nextRef

\* The shapes the calls name are a text shape (0), the picture (NumShapes -
\* 1) and no shape (NumShapes).
UpdateShapePosition ==
    /\ last.op = "none"
    /\ \E slide_index \in 0..1, shape_index \in {0, NumShapes - 1, NumShapes},
          left, top \in Lengths \ {FDiv(FInt(1), 1048576), FInt(2)},
          width, height \in Lengths :
           /\ slide_index = 0 \/ shape_index = 0
           /\ Reshape("update_shape_position",
                      [slide_index |-> slide_index, shape_index |-> shape_index,
                       left |-> left, top |-> top, width |-> width, height |-> height],
                      update_shape_position(Len(deck), ShapesAt(slide_index),
                                            slide_index, shape_index,
                                            left, top, width, height))

UpdateShapeSize ==
    /\ last.op = "none"
    /\ \E slide_index \in 0..1, shape_index \in {0, NumShapes - 1, NumShapes},
          width, height \in Lengths :
           /\ slide_index = 0 \/ shape_index = 0
           /\ Reshape("update_shape_size",
                      [slide_index |-> slide_index, shape_index |-> shape_index,
                       width |-> width, height |-> height],
                      update_shape_size(Len(deck), ShapesAt(slide_index),
                                        slide_index, shape_index, width, height))

MoveShape ==
    /\ last.op = "none"
    /\ \E slide_index \in 0..1, shape_index \in {0, NumShapes - 1, NumShapes},
          delta_x, delta_y \in Lengths :
           /\ slide_index = 0 \/ shape_index = 0
           /\ Reshape("move_shape",
                      [slide_index |-> slide_index, shape_index |-> shape_index,
                       delta_x |-> delta_x, delta_y |-> delta_y],
                      move_shape(Len(deck), ShapesAt(slide_index),
                                 slide_index, shape_index, delta_x, delta_y))

ResizeImage ==
    /\ last.op = "none"
    /\ \E slide_index \in 0..1, shape_index \in {0, NumShapes - 1, NumShapes},
          width, height \in Lengths \ {FDiv(FInt(1), 1048576)},
          maintain_aspect_ratio \in BOOLEAN :
           /\ slide_index = 0 \/ shape_index = 0
           /\ Reshape("resize_image",
                      [slide_index |-> slide_index, shape_index |-> shape_index,
                       width |-> width, height |-> height,
                       maintain_aspect_ratio |-> maintain_aspect_ratio],
                      resize_image(Len(deck), ShapesAt(slide_index),
                                   slide_index, shape_index, width, height,
                                   maintain_aspect_ratio))

NextGeometry ==
    \/ AlignShapes
    \/ DistributeShapes
    \/ UpdateShapePosition
    \/ UpdateShapeSize
    \/ MoveShape
    \/ ResizeImage

SpecGeometry == InitGeometry /\ [][NextGeometry]_vars

(* distribute_shapes_evenly on a row of more than three shapes.            *)

\* MaxRow unit squares on the diagonal, at 0..MaxSpan.
Rows ==
    {[k \in 1..MaxRow |->
         [kind |-> "text", left |-> at[k], top |-> at[k],
          width |-> 1, height |-> 1]] :
        at \in [1..MaxRow -> 0..MaxSpan]}

\* shape_indices: three or more of the shapes, each once, in any order.
RowLists == UNION {Injective(k, 0..(MaxRow - 1)) : k \in 3..MaxRow}

InitRow ==
    /\ deck = <<1>>
    /\ nextRef = 2
    /\ last = [op |-> "none", args |-> NoArgs, raised |-> FALSE, result |-> NoArgs]
    /\ pre = deck
    /\ prev = NoCall
    /\ \E a \in Rows :
           slides = [r \in 1..MaxLen |->
                        IF r = 1 THEN [layout |-> 0, shapes |-> a] ELSE NoSlide]
    /\ before = slides
    /\ injected = NoInjection
    /\ host = NoHost

DistributeRow ==
    /\ last.op = "none"
    /\ DistributeShapesOn({[slide_index |-> 0, shape_indices |-> l] : l \in RowLists},
                          {"horizontal", "vertical"})

NextRow == DistributeRow

SpecRow == InitRow /\ [][NextRow]_vars

(* Properties of the copies and of the alignment tools.                   *)

\* The slide duplicated by the last call and the slide the call made.
SourceOfLast == slides[At(pre, last.args.slide_index)]
CloneOfLast == slides[At(deck, last.result.new_index)]

\* No copy of a shape raised in the last call.
NoCopyFailed == \A k \in 1..Len(injected.copies) : injected.copies[k] = "none"

\* C12: after duplicate(i) the clone's shape count equals the source
\* slide's shape count (copy failures apart), also for a source whose
\* layout supplies placeholder shapes and for a source holding shapes that
\* are neither text-bearing nor pictures.
C12_CloneShapeCount ==
    (Succeeded("duplicate_slide") /\ NoCopyFailed)
    => Len(CloneOfLast.shapes) = Len(SourceOfLast.shapes)

\* Shape k of the source has a copy on the clone: a shape at its bounds.
HasCopy(k) ==
    \E j \in 1..Len(CloneOfLast.shapes) :
        /\ CloneOfLast.shapes[j].left = SourceOfLast.shapes[k].left
        /\ CloneOfLast.shapes[j].top = SourceOfLast.shapes[k].top
        /\ CloneOfLast.shapes[j].width = SourceOfLast.shapes[k].width
        /\ CloneOfLast.shapes[j].height = SourceOfLast.shapes[k].height

\* A duplication with valid arguments during which a shape copy raised: the
\* call still succeeds and the deck gains one slide at the requested place.
C14_FailureSwallowed ==
    (/\ last.op = "duplicate_slide"
     /\ Valid(last.args.slide_index, Len(pre))
     /\ 0 <= Target(last.args) /\ Target(last.args) <= Len(pre)
     /\ ~NoCopyFailed)
    => /\ ~last.raised
       /\ last.result.success
       /\ last.result.new_index = Target(last.args)
       /\ Len(deck) = Len(pre) + 1
       /\ At(deck, Target(last.args)) \notin ToSet(pre)
       /\ Without(deck, {Target(last.args)}, 1) = pre

\* C14: when the copy of one shape of the source fails during duplicate,
\* the failure is swallowed: every later shape is still attempted in order,
\* the deck gains exactly one slide at the requested position, duplicate
\* reports success, and the clone is only missing the shapes whose copy
\* failed.
C14_CopyFailureTolerated ==
    /\ C14_FailureSwallowed
    /\ (Succeeded("duplicate_slide") /\ ~NoCopyFailed)
       => \A k \in 1..Len(SourceOfLast.shapes) :
              ~HasCopy(k) => injected.copies[k] # "none"

(* The alignment tools: the last call, the shapes it found and left.       *)

Ran(op) == last.op = op /\ ~last.result.error

Aligned(types) == Ran("align_shapes") /\ last.args.alignment_type \in types

\* The shapes of the slide of the last call, before and after it.
Was == before[At(pre, last.args.slide_index)].shapes
Now == slides[At(deck, last.args.slide_index)].shapes

\* The places, in the slide's shape list, of the shapes the call lists.
Picked == {last.args.shape_indices[k] + 1 : k \in 1..Len(last.args.shape_indices)}

\* Nothing but the shapes of the call's slide changed, and of these only
\* the listed ones, which kept their sizes.
OnlyPickedMoved ==
    /\ deck = pre
    /\ \A r \in DOMAIN slides :
           r # At(pre, last.args.slide_index) => slides[r] = before[r]
    /\ Len(Now) = Len(Was)
    /\ \A j \in 1..Len(Was) :
           /\ Now[j].width = Was[j].width
           /\ Now[j].height = Was[j].height
           /\ Now[j].kind = Was[j].kind
           /\ j \notin Picked => Now[j] = Was[j]

\* C15: for any selection of >= 2 shapes, edge alignment gives: top - every
\* selected shape's top equals the pre-alignment minimum top; left - every
\* selected left equals the pre-alignment minimum left; bottom - every
\* selected shape's bottom edge (top + height) equals the pre-alignment
\* maximum bottom edge; right - every selected right edge (left + width)
\* equals the pre-alignment maximum right edge.  In all four cases widths,
\* heights, the coordinate on the other axis and all unselected shapes are
\* unchanged.
C15_EdgeAlignment ==
    /\ Aligned({"top"})
       => /\ OnlyPickedMoved
          /\ \A j \in Picked :
                /\ Now[j].top = Min({Was[i].top : i \in Picked})
                /\ Now[j].left = Was[j].left
    /\ Aligned({"left"})
       => /\ OnlyPickedMoved
          /\ \A j \in Picked :
                /\ Now[j].left = Min({Was[i].left : i \in Picked})
                /\ Now[j].top = Was[j].top
    /\ Aligned({"bottom"})
       => /\ OnlyPickedMoved
          /\ \A j \in Picked :
                /\ Now[j].top + Now[j].height
                   = Max({Was[i].top + Was[i].height : i \in Picked})
                /\ Now[j].left = Was[j].left
    /\ Aligned({"right"})
       => /\ OnlyPickedMoved
          /\ \A j \in Picked :
                /\ Now[j].left + Now[j].width
                   = Max({Was[i].left + Was[i].width : i \in Picked})
                /\ Now[j].top = Was[j].top

\* A right alignment of two shapes of different widths that moved one of
\* them, beside a shape that was not selected.
C15_Witness ==
    /\ Aligned({"right"})
    /\ Cardinality(Picked) = 2
    /\ \E i, j \in Picked : Was[i].width # Was[j].width
    /\ \E j \in Picked : Now[j].left # Was[j].left
    /\ \E j \in 1..Len(Was) : j \notin Picked

\* Twice the center of a shape along a direction.
Center2(shape, direction) == 2 * Lead(shape, direction) + Extent(shape, direction)

\* Twice the sum of the centers of the first k listed shapes, as they were.
RECURSIVE SumCenter2(_, _)
SumCenter2(k, direction) ==
    IF k = 0 THEN 0
    ELSE SumCenter2(k - 1, direction)
         + Center2(Was[last.args.shape_indices[k] + 1], direction)

Listed == Len(last.args.shape_indices)

\* The integer part of num / den, den > 0, toward zero.
Trunc(num, den) == IF num >= 0 THEN num \div den ELSE -((-num) \div den)

\* The directions a center alignment acts along.
Along(direction) ==
    IF direction = "horizontal" THEN {"center_horizontal", "center"}
    ELSE {"center_vertical", "center"}

\* C16: after align with center_horizontal (resp. center_vertical, center)
\* on >= 2 shapes of arbitrary integer widths and positions, every selected
\* shape keeps its width and height and all selected shapes' horizontal
\* (resp. vertical, both) centers coincide, measured in native units.
C16_CentersCoincide ==
    \A direction \in {"horizontal", "vertical"} :
        Aligned(Along(direction))
        => /\ OnlyPickedMoved
           /\ \A i, j \in Picked :
                  Center2(Now[i], direction) = Center2(Now[j], direction)

\* C16, amended: after align with center_horizontal (resp. center_vertical,
\* center) on >= 2 shapes every selected shape keeps its width and height
\* and its horizontal (resp. vertical, both) center lies less than one
\* native unit from the mean of the selected shapes' pre-alignment centers.
C16_CentersNearMean ==
    \A direction \in {"horizontal", "vertical"} :
        Aligned(Along(direction))
        => /\ OnlyPickedMoved
           /\ \A j \in Picked :
                  Abs(Listed * Center2(Now[j], direction)
                      - SumCenter2(Listed, direction)) < 2 * Listed

\* A horizontal center alignment of two shapes that left their centers
\* apart.
C16_Witness ==
    /\ Aligned({"center_horizontal"})
    /\ Cardinality(Picked) = 2
    /\ \E i, j \in Picked :
           Center2(Now[i], "horizontal") # Center2(Now[j], "horizontal")

\* C17: in center alignments each selected shape's new left is
\* trunc(Mx - width/2) and new top is trunc(My - height/2), where Mx and My
\* are the means of the selected shapes' pre-alignment centers computed
\* once before any shape is written (so "center" equals applying
\* center_horizontal and center_vertical independently to the original
\* geometry), and trunc truncates toward zero, also for negative values,
\* rather than rounding or flooring.
C17_CenterTruncates ==
    /\ \A direction \in {"horizontal", "vertical"} :
           Aligned(Along(direction))
           => /\ OnlyPickedMoved
              /\ \A j \in Picked :
                     Lead(Now[j], direction)
                     = Trunc(SumCenter2(Listed, direction)
                             - Listed * Extent(Was[j], direction),
                             2 * Listed)
    /\ Aligned({"center_horizontal"}) => \A j \in Picked : Now[j].top = Was[j].top
    /\ Aligned({"center_vertical"}) => \A j \in Picked : Now[j].left = Was[j].left

\* A center alignment of three shapes that put one of them at a negative
\* left which is the truncation, not the floor, of a fraction.
C17_Witness ==
    /\ Aligned({"center"})
    /\ Cardinality(Picked) = 3
    /\ \E j \in Picked :
           LET num == SumCenter2(Listed, "horizontal") - Listed * Was[j].width
           IN  /\ num < 0
               /\ (-num) % (2 * Listed) # 0
               /\ Now[j].left # Was[j].left

\* The last call named a slide or a shape that does not exist.
BadIndex ==
    \/ ~Valid(last.args.slide_index, Len(pre))
    \/ \E k \in 1..Listed :
           ~Valid(last.args.shape_indices[k],
                  Len(before[At(pre, last.args.slide_index)].shapes))

\* C18: align with fewer than 2 shape indices, distribute with fewer than
\* 3 shape indices, any out-of-range shape or slide index, an unknown
\* alignment type, or an unknown direction returns an error and leaves the
\* geometry of every shape on the slide unchanged.
C18_RejectedUnchanged ==
    /\ (/\ last.op = "align_shapes"
        /\ \/ Listed < 2
           \/ BadIndex
           \/ last.args.alignment_type \notin valid_alignments)
       => last.result.error /\ slides = before /\ deck = pre
    /\ (/\ last.op = "distribute_shapes_evenly"
        /\ \/ Listed < 3
           \/ BadIndex
           \/ last.args.direction \notin {"horizontal", "vertical"})
       => last.result.error /\ slides = before /\ deck = pre

\* An alignment of a single shape was refused; the shape is not alone on
\* its slide.
C18_Witness ==
    /\ last.op = "align_shapes"
    /\ Listed = 1
    /\ ~BadIndex
    /\ last.args.alignment_type = "left"
    /\ last.result.error
    /\ \E i, j \in 1..Len(Was) : Was[i].left # Was[j].left

Distributed(direction) ==
    Ran("distribute_shapes_evenly") /\ last.args.direction = direction

\* The cross axis.
Across(direction) == IF direction = "horizontal" THEN "vertical" ELSE "horizontal"

\* The centers of three shapes lie on one line.
Collinear(a, b, c) ==
    (Center2(b, "horizontal") - Center2(a, "horizontal"))
        * (Center2(c, "vertical") - Center2(a, "vertical"))
    = (Center2(c, "horizontal") - Center2(a, "horizontal"))
        * (Center2(b, "vertical") - Center2(a, "vertical"))

\* Shape a ends, along the direction, where shape b starts or before.
Clear(a, b, direction) ==
    Lead(a, direction) + Extent(a, direction) <= Lead(b, direction)

\* The listed shapes were three shapes on one line, clear of one another
\* along the direction.
ThreeInLine(direction) ==
    /\ Listed = 3
    /\ Cardinality(Picked) = 3
    /\ \A a, b, c \in Picked : Collinear(Was[a], Was[b], Was[c])
    /\ \A a, b \in Picked :
           a # b => Clear(Was[a], Was[b], direction) \/ Clear(Was[b], Was[a], direction)

\* The three listed shapes a, b, c stand in this order along the direction.
InOrder(a, b, c, direction) ==
    /\ {a, b, c} = Picked
    /\ Lead(Now[a], direction) <= Lead(Now[b], direction)
    /\ Lead(Now[b], direction) <= Lead(Now[c], direction)

\* The gap between shape a and the next shape b.
GapBetween(a, b, direction) ==
    Lead(Now[b], direction) - Lead(Now[a], direction) - Extent(Now[a], direction)

\* The sum of the extents of the first k listed shapes.
RECURSIVE ListedExtent(_, _)
ListedExtent(k, direction) ==
    IF k = 0 THEN 0
    ELSE ListedExtent(k - 1, direction)
         + Extent(Was[last.args.shape_indices[k] + 1], direction)

\* The span of the listed shapes, as the call found them, less their
\* extents.
FreeSpace(direction) ==
    Max({Lead(Was[j], direction) + Extent(Was[j], direction) : j \in Picked})
    - Min({Lead(Was[j], direction) : j \in Picked})
    - ListedExtent(Listed, direction)

\* C19: distribute over 3 collinear, non-overlapping shapes (any integer
\* native-unit widths and positions) yields two equal gaps between
\* consecutive shapes along the chosen axis.
C19_EqualGaps ==
    \A direction \in {"horizontal", "vertical"} :
        (Distributed(direction) /\ ThreeInLine(direction))
        => \A a, b, c \in Picked :
               InOrder(a, b, c, direction)
               => GapBetween(a, b, direction) = GapBetween(b, c, direction)

\* C19, amended: distribute over 3 collinear, non-overlapping shapes yields
\* two gaps between consecutive shapes along the chosen axis that differ by
\* at most one native unit, and that are equal when the free space (the
\* span less the three extents) is an even number of native units.
C19_GapsWithinOne ==
    \A direction \in {"horizontal", "vertical"} :
        (Distributed(direction) /\ ThreeInLine(direction))
        => \A a, b, c \in Picked :
               InOrder(a, b, c, direction)
               => /\ Abs(GapBetween(a, b, direction) - GapBetween(b, c, direction)) <= 1
                  /\ FreeSpace(direction) % 2 = 0
                     => GapBetween(a, b, direction) = GapBetween(b, c, direction)

\* A distribution of three shapes in a row whose free space is odd: the two
\* gaps differ.
C19_Witness ==
    /\ Distributed("horizontal")
    /\ ThreeInLine("horizontal")
    /\ FreeSpace("horizontal") % 2 = 1
    /\ \E a, b, c \in Picked :
           /\ InOrder(a, b, c, "horizontal")
           /\ GapBetween(a, b, "horizontal") # GapBetween(b, c, "horizontal")

\* The listed shape k stood before the listed shape m in the sorted list:
\* its leading edge was smaller, or the same and k is listed first.
SortsBefore(k, m, direction) ==
    LET lead_k == Lead(Was[last.args.shape_indices[k] + 1], direction)
        lead_m == Lead(Was[last.args.shape_indices[m] + 1], direction)
    IN  lead_k < lead_m \/ (lead_k = lead_m /\ k < m)

\* The listed shapes sorted before the listed shape m.
Earlier(m, direction) == {k \in 1..Listed : SortsBefore(k, m, direction)}

\* The sum of the extents of the listed shapes of K, a set of places in the
\* list.
RECURSIVE ExtentOf(_, _)
ExtentOf(K, direction) ==
    IF K = {} THEN 0
    ELSE LET k == CHOOSE k \in K : TRUE
         IN  Extent(Was[last.args.shape_indices[k] + 1], direction)
             + ExtentOf(K \ {k}, direction)

\* The listed shape sorted first and the one sorted last.
Foremost(direction) == CHOOSE m \in 1..Listed : Earlier(m, direction) = {}
Hindmost(direction) ==
    CHOOSE m \in 1..Listed : Cardinality(Earlier(m, direction)) = Listed - 1

\* span - sum of extents: the numerator of the gap.
GapNumerator(direction) ==
    LET first == Was[last.args.shape_indices[Foremost(direction)] + 1]
        final == Was[last.args.shape_indices[Hindmost(direction)] + 1]
    IN  Lead(final, direction) + Extent(final, direction)
        - Lead(first, direction) - ExtentOf(1..Listed, direction)

\* trunc(lead_first + sum over the shapes sorted before m of (extent + gap))
LeadingEdge(m, direction) ==
    LET first == Was[last.args.shape_indices[Foremost(direction)] + 1]
        before_m == Earlier(m, direction)
    IN  Trunc((Listed - 1) * (Lead(first, direction) + ExtentOf(before_m, direction))
              + Cardinality(before_m) * GapNumerator(direction),
              Listed - 1)

\* C20: distribute on >= 3 shapes sorts them by leading edge, takes span =
\* trailing edge of the last sorted shape minus leading edge of the first,
\* gap = (span - sum of extents)/(count - 1), and sets the k-th sorted
\* shape's leading edge to trunc(lead_first + sum over j<k of (extent_j +
\* gap)); a negative gap (extents exceed span) is accepted and the call
\* succeeds; extents, the other-axis coordinate and unselected shapes are
\* unchanged.
C20_DistributeFormula ==
    \A direction \in {"horizontal", "vertical"} :
        (/\ last.op = "distribute_shapes_evenly"
         /\ last.args.direction = direction
         /\ Listed >= 3
         /\ ~BadIndex
         /\ Cardinality(Picked) = Listed)
        => /\ ~last.result.error
           /\ OnlyPickedMoved
           /\ \A m \in 1..Listed :
                  LET j == last.args.shape_indices[m] + 1
                  IN  /\ Lead(Now[j], direction) = LeadingEdge(m, direction)
                      /\ Lead(Now[j], Across(direction))
                         = Lead(Was[j], Across(direction))

(* duplicate_slide: where the source slide stands afterwards.              *)

\* The position the last duplicate call asked for: insert_position, or
\* the place after the source by default.
AskedPosition ==
    IF last.args.insert_position = <<>> THEN last.args.slide_index + 1
    ELSE last.args.insert_position[1]

\* The 0-based index in the deck of the slide the last call duplicated.
SourceIndexNow == PlaceOf(deck, At(pre, last.args.slide_index)) - 1

\* C28: after a successful duplicate(i, p) the source slide is at index i
\* when p > i and at index i + 1 when p <= i, so the returned
\* original_index (= i) names the source slide in the resulting deck
\* exactly when p > i, the default p = i + 1 included.
C28_SourceIndexAfterDuplicate ==
    Succeeded("duplicate_slide") =>
        LET i == last.args.slide_index
            p == AskedPosition
        IN  /\ last.result.original_index = i
            /\ p > i => SourceIndexNow = i
            /\ p <= i => SourceIndexNow = i + 1
            /\ (At(deck, last.result.original_index) = At(pre, i)) <=> (p > i)

\* A duplicate placed at or before its source succeeded.
C28_Witness ==
    /\ Succeeded("duplicate_slide")
    /\ last.args.insert_position # <<>>
    /\ AskedPosition <= last.args.slide_index
    /\ SourceIndexNow = last.args.slide_index + 1

(* align_shapes: the same call a second time.                              *)

\* The last call repeated the successful call before it.
Repeated(types) ==
    /\ Aligned(types)
    /\ prev.op = "align_shapes"
    /\ prev.args = last.args
    /\ Len(last.args.shape_indices) >= 2

\* C29: align is idempotent: for every alignment type and every
\* selection of >= 2 shapes, the same align call applied a second time
\* right after the first leaves every shape's geometry exactly as the
\* first call left it.
C29_AlignIdempotent == Repeated(valid_alignments) => Now = Was

\* C29, amended: a second identical align call leaves every shape's
\* geometry as the first call left it for top, bottom, left and right; for
\* center_horizontal, center_vertical and center it keeps every size and
\* every unselected shape and moves a selected shape by at most one native
\* unit along each aligned axis.
C29_AlignNearlyIdempotent ==
    /\ Repeated({"top", "bottom", "left", "right"}) => Now = Was
    /\ Repeated({"center_horizontal", "center_vertical", "center"})
       => /\ OnlyPickedMoved
          /\ \A j \in Picked :
                 /\ Abs(Now[j].left - Was[j].left) <= 1
                 /\ Abs(Now[j].top - Was[j].top) <= 1

\* A repeated horizontal center alignment that moved a shape again.
C29_Witness ==
    /\ Repeated({"center_horizontal"})
    /\ \E j \in Picked : Now[j].left # Was[j].left

(* distribute_shapes_evenly: which shapes move, and where to.              *)

\* The listed shape at place k of the list, as the call found it and as
\* it left it.
ListedWas(k) == Was[last.args.shape_indices[k] + 1]
ListedNow(k) == Now[last.args.shape_indices[k] + 1]

\* The shapes sorted first and last stand where they stood.
EndsKept(direction) ==
    /\ ListedNow(Foremost(direction)) = ListedWas(Foremost(direction))
    /\ ListedNow(Hindmost(direction)) = ListedWas(Hindmost(direction))

\* The listed shapes stand in the order, by leading edge, they stood in.
OrderKept(direction) ==
    \A k, m \in 1..Listed :
        SortsBefore(k, m, direction)
        => Lead(ListedNow(k), direction) <= Lead(ListedNow(m), direction)

\* Every listed shape lies between the leading edge of the first sorted
\* shape and the trailing edge of the last, as the call found them.
WithinSpan(direction) ==
    \A k \in 1..Listed :
        /\ Lead(ListedWas(Foremost(direction)), direction)
              <= Lead(ListedNow(k), direction)
        /\ Lead(ListedNow(k), direction) + Extent(ListedNow(k), direction)
              <= Lead(ListedWas(Hindmost(direction)), direction)
                 + Extent(ListedWas(Hindmost(direction)), direction)

\* C30: distribute moves only interior shapes: the shape with the smallest
\* leading edge and the shape with the largest leading edge among the
\* selection keep their original positions, and after the call the
\* selected shapes are still in the same order by leading edge and all lie
\* within the original [leading edge of first, trailing edge of last] span.
C30_OnlyInteriorMove ==
    \A direction \in {"horizontal", "vertical"} :
        Distributed(direction)
        => /\ EndsKept(direction)
           /\ OrderKept(direction)
           /\ WithinSpan(direction)

(* Two callers on one presentation.                                        *)

\* Both callers' calls have ended.
Finished == host.first.pc = "done" /\ host.second.pc = "done"

\* The deck the first caller's call, run whole, makes of deck d, and the
\* deck the second caller's call makes of it.
FirstOn(d) ==
    IF host.first.op = "swap_slides"
    THEN swap_slides(d, host.first.args.index_a, host.first.args.index_b).deck
    ELSE duplicate_slide(d, Len(host.start) + 1, host.first.args.slide_index,
                         host.first.args.insert_position,
                         [r \in 1..MaxLen |-> NoSlide], <<>>).deck

SecondOn(d) ==
    IF host.second.op = "delete_slide"
    THEN delete_slide(d, host.second.args.slide_index).deck
    ELSE move_slide(d, host.second.args.from_index, host.second.args.to_index).deck

\* The decks the two calls leave when one runs to its end before the other
\* starts.
SerialDecks == {SecondOn(FirstOn(host.start)), FirstOn(SecondOn(host.start))}

C27_WitnessDuplicate ==
    /\ Finished
    /\ host.mixed
    /\ host.first.op = "duplicate_slide"
    /\ deck \notin SerialDecks

(* The analyses of a layout (SpecLayout).                                  *)

\* The analysis `op` was just called and returned an answer, not an error.
Analysed(op) == last.op = op /\ ~last.result.error

\* The shapes of the analysed slide.
Analysand == ShapesAt(0)

\* The interiors of two rectangles intersect, in native units.
InteriorsMeet(a, b) ==
    /\ a.left < b.left + b.width
    /\ b.left < a.left + a.width
    /\ a.top < b.top + b.height
    /\ b.top < a.top + a.height

\* The entries of `overlaps` that report the pair (i, j).
ReportsOf(overlaps, i, j) ==
    {k \in 1..Len(overlaps) :
        overlaps[k].shape1_index = i /\ overlaps[k].shape2_index = j}

\* C21: detect_overlapping_elements reports the pair of shapes i < j iff the
\* interiors of their rectangles intersect (each left edge is strictly
\* before the other's right edge, each top strictly above the other's
\* bottom), so shapes that only touch along an edge are never reported;
\* and has_overlaps is true iff at least one pair is reported.
C21_OverlapIffInteriorsMeet ==
    Analysed("detect_overlapping_elements") =>
        /\ \A i, j \in 0..(Len(Analysand) - 1) :
               i < j =>
                   (ReportsOf(last.result.overlaps, i, j) # {}
                    <=> InteriorsMeet(Analysand[i + 1], Analysand[j + 1]))
        /\ last.result.has_overlaps <=> Len(last.result.overlaps) >= 1

\* The indices listed by get_overlapping_shapes for a reference shape.
ListedFor(answer) ==
    {answer.overlapping_shapes[k].index : k \in 1..Len(answer.overlapping_shapes)}

FAtMost(x, y) == ~FLess(y, x)

Feature2(shape, type) ==
    CASE type = "left_alignment" -> 2 * shape.left
      [] type = "right_alignment" -> 2 * (shape.left + shape.width)
      [] type = "center_horizontal_alignment" -> 2 * shape.left + shape.width
      [] type = "top_alignment" -> 2 * shape.top

\* The seed i with the shapes whose feature is within 0.1 inch of its own.
Cluster(shapes, type, i) ==
    {j \in 0..(Len(shapes) - 1) :
        \/ j = i
        \/ Abs(Feature2(shapes[i + 1], type) - Feature2(shapes[j + 1], type))
               <= 2 * (EmuPerInch \div 10)}

\* The index sets of the suggestions of one type.
SuggestedSets(suggestions, type) ==
    {{suggestions[k].shape_indices[m] : m \in 1..Len(suggestions[k].shape_indices)} :
        k \in {k \in 1..Len(suggestions) : suggestions[k].type = type}}

\* C24: for each of the features left edge, right edge, horizontal center
\* and top edge, suggest_alignment_improvements returns exactly one
\* suggestion for each distinct set {i} + {j # i : |f(i) - f(j)| <= 0.1
\* inch} of at least two shapes, over all seeds i, and no two suggestions
\* share both their type and their index set.
C24_OneSuggestionPerCluster ==
    Analysed("suggest_alignment_improvements") /\ Len(Analysand) >= 2 =>
        LET suggestions == last.result.suggestions
        IN  /\ \A type \in {"left_alignment", "right_alignment",
                            "center_horizontal_alignment", "top_alignment"} :
                   SuggestedSets(suggestions, type)
                   = {c \in {Cluster(Analysand, type, i) :
                                i \in 0..(Len(Analysand) - 1)} :
                         Cardinality(c) >= 2}
            /\ \A k, m \in 1..Len(suggestions) :
                   Key(suggestions[k]) = Key(suggestions[m]) => k = m

\* The pairs i < j of shapes that satisfy `between`.
PairsWhere(shapes, between(_, _)) ==
    {p \in (0..(Len(shapes) - 1)) \X (0..(Len(shapes) - 1)) :
        p[1] < p[2] /\ between(shapes[p[1] + 1], shapes[p[2] + 1])}

\* The vertical extents of two shapes overlap and one shape lies entirely to
\* the left of the other, in native units.
GapAcross(a, b) ==
    /\ a.top < b.top + b.height
    /\ b.top < a.top + a.height
    /\ a.left + a.width <= b.left \/ b.left + b.width <= a.left

\* The horizontal extents of two shapes overlap and one shape lies entirely
\* above the other, in native units.
GapDown(a, b) ==
    /\ a.left < b.left + b.width
    /\ b.left < a.left + a.width
    /\ a.top + a.height <= b.top \/ b.top + b.height <= a.top

\* Every gap of the list is zero or more.
NoneNegative(gaps) == \A k \in 1..Len(gaps) : Sgn(gaps[k]) >= 0

C26_ExtentsStayPositive ==
    \A k \in 1..Len(Analysand) :
        Analysand[k].width > 0 /\ Analysand[k].height > 0

====
